---- MODULE Spec2Model ----
(***************************************************************************)
(* State-machine model of the Adafruit VEML7700 ambient-light-sensor       *)
(* drivers:                                                                *)
(*   - Adafruit_VEML7700 with luxAutoSensor() and its subclass             *)
(*     VEML7700AutoGain with readLuxAuto()  (src/VEML7700AutoGain.cpp,     *)
(*     src/Adafruit_VEML7700.h);                                           *)
(*   - the Adafruit_VEML7700 variant with optimizeParams()                 *)
(*     (src/unnamed/part_003).                                             *)
(* The sensor is its 16-bit registers; the driver object is its cached     *)
(* fields.  Every public operation is one action; luxAutoSensor(), which   *)
(* blocks in delay() and reads a fresh sample in every loop iteration, is  *)
(* one action per iteration.                                               *)
(***************************************************************************)
EXTENDS Integers, Sequences, FiniteSets, TLC

VARIABLES
  driver,          \* class of the object under test
  begun,           \* begin() has returned true (register objects exist)
  ALS_Config,      \* configuration register 0x00 of the sensor (16 bit)
  Power_Saving,    \* power-save register 0x03 of the sensor (16 bit)
  veml_gain,       \* VEML7700AutoGain: cached gain code
  veml_it,         \* VEML7700AutoGain: cached integration-time code
  low_threshold,   \* VEML7700AutoGain: auto-gain thresholds
  high_threshold,
  lowThresh,       \* part_003 Adafruit_VEML7700: optimizeParams thresholds
  hiThresh,
  las,             \* frame of a running luxAutoSensor() call
  call             \* the call just completed: operation, input, entry state, result, bus traffic

vars == <<driver, begun, ALS_Config, Power_Saving, veml_gain, veml_it,
          low_threshold, high_threshold, lowThresh, hiThresh, las, call>>

----------------------------------------------------------------------------
(* Register codes, src/Adafruit_VEML7700.h *)

VEML7700_GAIN_1 == 0
VEML7700_GAIN_2 == 1
VEML7700_GAIN_1_8 == 2
VEML7700_GAIN_1_4 == 3

VEML7700_IT_100MS == 0
VEML7700_IT_200MS == 1
VEML7700_IT_400MS == 2
VEML7700_IT_800MS == 3
VEML7700_IT_50MS == 8
VEML7700_IT_25MS == 12

VEML7700_PERS_1 == 0

VEML7700_GAIN_MIN == VEML7700_GAIN_1_8
VEML7700_GAIN_MAX == VEML7700_GAIN_2
VEML7700_IT_MAX == VEML7700_IT_800MS
VEML7700_IT_MIN == VEML7700_IT_25MS

GOOD == "GOOD"
TOO_LOW == "TOO_LOW"
TOO_HIGH == "TOO_HIGH"

\* ~0 converted to uint8_t
UINT8_MAX == 255

GainCodes == {VEML7700_GAIN_1, VEML7700_GAIN_2, VEML7700_GAIN_1_8, VEML7700_GAIN_1_4}
ItCodes == {VEML7700_IT_100MS, VEML7700_IT_200MS, VEML7700_IT_400MS,
            VEML7700_IT_800MS, VEML7700_IT_50MS, VEML7700_IT_25MS}

----------------------------------------------------------------------------
(* Bounds and input sets *)

\* number of evenly spaced raw counts sampled over 0..65535, besides the
\* counts next to the thresholds
RawSamples == 2

RawCounts ==
  {0, 50, 99, 100, 101, 150, 1000, 5000, 9999, 10000, 10001, 20000, 30000, 30001}
    \cup {(k * 65535) \div RawSamples : k \in 0..RawSamples}

\* arguments of setAutoThreshold(low, high): the default band and an inverted
\* pair (the code validates nothing)
AutoThresholds == {<<100, 10000>>, <<10000, 100>>}

\* constructor arguments of the part_003 driver: the defaults and a second band
CtorThresholds == {<<1000, 30000>>, <<100, 10000>>}

\* arguments of setGain / setIntegrationTime: every valid code and one reserved
\* integration-time code
GainArgs == GainCodes
ItArgs == ItCodes \cup {4}
\* persistence arguments: VEML7700_PERS_1 .. VEML7700_PERS_8 and one
\* argument wider than the field
PersArgs == (0 .. 3) \cup {7}

\* contents of the configuration register before begin(): the power-on value
\* and a value left behind by an earlier run (sd=1, int=1, pers=3, it=25ms, gain=1/4)
InitConfigs == {1, 6963}

\* contents of the power-save register that goes with it: the power-on value,
\* and power save left enabled by the earlier run
InitPowerSaving(config) == IF config = 1 THEN 0 ELSE 1

----------------------------------------------------------------------------
(* Register bit fields (Adafruit_I2CRegisterBits(reg, bits, shift)) *)

Pow2(n) ==
  CASE n = 0 -> 1 [] n = 1 -> 2 [] n = 2 -> 4 [] n = 4 -> 16
    [] n = 6 -> 64 [] n = 11 -> 2048 [] OTHER -> 2 ^ n

ReadBits(reg, bits, shift) == (reg \div Pow2(shift)) % Pow2(bits)

WriteBits(reg, bits, shift, data) ==
  reg - ReadBits(reg, bits, shift) * Pow2(shift) + (data % Pow2(bits)) * Pow2(shift)

\* value of a C++ bool written to a register field
BoolBit(b) == IF b THEN 1 ELSE 0

\* the object: the sensor's registers, the cached fields and the bus traffic
\* of the running call
Obj == [ALS_Config |-> ALS_Config, Power_Saving |-> Power_Saving,
        veml_gain |-> veml_gain, veml_it |-> veml_it, bus |-> <<>>]

BusRead(o, field) == [o EXCEPT !.bus = Append(@, <<"r", field>>)]

WriteField(o, field, bits, shift, data) ==
  [o EXCEPT !.ALS_Config = WriteBits(@, bits, shift, data),
            !.bus = Append(@, <<"w", field, data % Pow2(bits)>>)]

getGain(o) == ReadBits(o.ALS_Config, 2, 11)
getIntegrationTime(o) == ReadBits(o.ALS_Config, 4, 6)
getPersistence(o) == ReadBits(o.ALS_Config, 2, 4)
interruptEnabled(o) == ReadBits(o.ALS_Config, 1, 1) = 1
enabled(o) == ReadBits(o.ALS_Config, 1, 0) = 0
powerSaveEnabled(o) == ReadBits(o.Power_Saving, 1, 0) = 1

enable(o, en) == WriteField(o, "ALS_Shutdown", 1, 0, BoolBit(~en))
interruptEnable(o, en) == WriteField(o, "ALS_Interrupt_Enable", 1, 1, BoolBit(en))
\* mutant: the persistence field one bit up, over the integration time
setPersistence_shift5(o, pers) == WriteField(o, "ALS_Persistence", 2, 5, pers)
setPersistence(o, pers) == WriteField(o, "ALS_Persistence", 2, 4, pers)
Adafruit_VEML7700_setIntegrationTime(o, it) == WriteField(o, "ALS_Integration_Time", 4, 6, it)
Adafruit_VEML7700_setGain(o, gain) == WriteField(o, "ALS_Gain", 2, 11, gain)
powerSaveEnable(o, en) ==
  [o EXCEPT !.Power_Saving = WriteBits(@, 1, 0, BoolBit(en)),
            !.bus = Append(@, <<"w", "PowerSave_Enable", BoolBit(en)>>)]

VEML7700AutoGain_setIntegrationTime(o, it) ==
  Adafruit_VEML7700_setIntegrationTime([o EXCEPT !.veml_it = it], it)

\* mutant: the override forgets the cached gain
VEML7700AutoGain_setGain_noCache(o, gain) == Adafruit_VEML7700_setGain(o, gain)

VEML7700AutoGain_setGain(o, gain) ==
  Adafruit_VEML7700_setGain([o EXCEPT !.veml_gain = gain], gain)

----------------------------------------------------------------------------
(* VEML7700AutoGain helpers *)

getIntegrationMs_swapped(it) ==
  CASE it = VEML7700_IT_100MS -> 100
    [] it = VEML7700_IT_200MS -> 200
    [] it = VEML7700_IT_400MS -> 400
    [] it = VEML7700_IT_800MS -> 800
    [] it = VEML7700_IT_50MS -> 25
    [] it = VEML7700_IT_25MS -> 50
    [] OTHER -> 0

getIntegrationMs(it) ==
  CASE it = VEML7700_IT_100MS -> 100
    [] it = VEML7700_IT_200MS -> 200
    [] it = VEML7700_IT_400MS -> 400
    [] it = VEML7700_IT_800MS -> 800
    [] it = VEML7700_IT_50MS -> 50
    [] it = VEML7700_IT_25MS -> 25
    [] OTHER -> 0

\* mutant: no step below 100 ms
prevIt_stopsAt100(it) ==
  CASE it = VEML7700_IT_200MS -> VEML7700_IT_100MS
    [] it = VEML7700_IT_400MS -> VEML7700_IT_200MS
    [] it = VEML7700_IT_800MS -> VEML7700_IT_400MS
    [] OTHER -> it

prevIt(it) ==
  CASE it = VEML7700_IT_50MS -> VEML7700_IT_25MS
    [] it = VEML7700_IT_100MS -> VEML7700_IT_50MS
    [] it = VEML7700_IT_200MS -> VEML7700_IT_100MS
    [] it = VEML7700_IT_400MS -> VEML7700_IT_200MS
    [] it = VEML7700_IT_800MS -> VEML7700_IT_400MS
    [] OTHER -> UINT8_MAX

nextIt(it) ==
  CASE it = VEML7700_IT_25MS -> VEML7700_IT_50MS
    [] it = VEML7700_IT_50MS -> VEML7700_IT_100MS
    [] it = VEML7700_IT_100MS -> VEML7700_IT_200MS
    [] it = VEML7700_IT_200MS -> VEML7700_IT_400MS
    [] it = VEML7700_IT_400MS -> VEML7700_IT_800MS
    [] OTHER -> UINT8_MAX

prevGain(gain) ==
  CASE gain = VEML7700_GAIN_1_4 -> VEML7700_GAIN_1_8
    [] gain = VEML7700_GAIN_1 -> VEML7700_GAIN_1_4
    [] gain = VEML7700_GAIN_2 -> VEML7700_GAIN_1
    [] OTHER -> UINT8_MAX

\* mutant: the next gain taken as the next register code
nextGain_byCode(gain) == IF gain < 3 THEN gain + 1 ELSE UINT8_MAX

nextGain(gain) ==
  CASE gain = VEML7700_GAIN_1_8 -> VEML7700_GAIN_1_4
    [] gain = VEML7700_GAIN_1_4 -> VEML7700_GAIN_1
    [] gain = VEML7700_GAIN_1 -> VEML7700_GAIN_2
    [] OTHER -> UINT8_MAX

\* lazyNormalize(value) * 0.0576 in units of 0.0036 lux (0.0576 / 16):
\* the gain switch contributes 1/2, 1, 4 or 8 and the integration-time switch
\* 1/8 .. 4, so 16 * the product is a whole number
lazyGain2(gain) ==
  CASE gain = VEML7700_GAIN_2 -> 1
    [] gain = VEML7700_GAIN_1_4 -> 8
    [] gain = VEML7700_GAIN_1_8 -> 16
    [] OTHER -> 2

lazyIt8(it) ==
  CASE it = VEML7700_IT_25MS -> 32
    [] it = VEML7700_IT_50MS -> 16
    [] it = VEML7700_IT_200MS -> 4
    [] it = VEML7700_IT_400MS -> 2
    [] it = VEML7700_IT_800MS -> 1
    [] OTHER -> 8

lazyNormalize(o, value) == value * lazyGain2(o.veml_gain) * lazyIt8(o.veml_it)

----------------------------------------------------------------------------
(* VEML7700AutoGain::readLuxAuto *)

\* mutants: the comparisons with the threshold itself included
TooLow_le(count, low) == count <= low
TooHigh_ge(count, high) == count >= high

\* the two comparisons that classify the raw count
TooLow(count, low) == count < low
TooHigh(count, high) == count > high

\* mutant: gain raised before the integration time is back at 100 ms
readLuxAuto_low_gainFirst(o) ==
  IF o.veml_gain # VEML7700_GAIN_MAX
    THEN enable(VEML7700AutoGain_setGain(enable(o, FALSE), nextGain(o.veml_gain)), TRUE)
  ELSE IF o.veml_it # VEML7700_IT_MAX
    THEN enable(VEML7700AutoGain_setIntegrationTime(enable(o, FALSE), nextIt(o.veml_it)), TRUE)
  ELSE o

\* mutant: the last branch without its test for the longest integration time
readLuxAuto_low_noLimit(o) ==
  IF getIntegrationMs(o.veml_it) < 100
    THEN enable(VEML7700AutoGain_setIntegrationTime(enable(o, FALSE), nextIt(o.veml_it)), TRUE)
  ELSE IF o.veml_gain # VEML7700_GAIN_MAX
    THEN enable(VEML7700AutoGain_setGain(enable(o, FALSE), nextGain(o.veml_gain)), TRUE)
  ELSE enable(VEML7700AutoGain_setIntegrationTime(enable(o, FALSE), nextIt(o.veml_it)), TRUE)

\* the branch taken for a too-low count: one step towards more sensitivity
readLuxAuto_low(o) ==
  IF getIntegrationMs(o.veml_it) < 100
    THEN enable(VEML7700AutoGain_setIntegrationTime(enable(o, FALSE), nextIt(o.veml_it)), TRUE)
  ELSE IF o.veml_gain # VEML7700_GAIN_MAX
    THEN enable(VEML7700AutoGain_setGain(enable(o, FALSE), nextGain(o.veml_gain)), TRUE)
  ELSE IF o.veml_it # VEML7700_IT_MAX
    THEN enable(VEML7700AutoGain_setIntegrationTime(enable(o, FALSE), nextIt(o.veml_it)), TRUE)
  ELSE o

\* mutant: the sensor re-armed before the new setting is written
readLuxAuto_high_armFirst(o) ==
  IF getIntegrationMs(o.veml_it) > 100
    THEN VEML7700AutoGain_setIntegrationTime(enable(enable(o, FALSE), TRUE), prevIt(o.veml_it))
  ELSE IF o.veml_gain # VEML7700_GAIN_MIN
    THEN VEML7700AutoGain_setGain(enable(enable(o, FALSE), TRUE), prevGain(o.veml_gain))
  ELSE IF o.veml_it # VEML7700_IT_MIN
    THEN VEML7700AutoGain_setIntegrationTime(enable(enable(o, FALSE), TRUE), prevIt(o.veml_it))
  ELSE o

\* the branch taken for a too-high count: one step towards less sensitivity
readLuxAuto_high(o) ==
  IF getIntegrationMs(o.veml_it) > 100
    THEN enable(VEML7700AutoGain_setIntegrationTime(enable(o, FALSE), prevIt(o.veml_it)), TRUE)
  ELSE IF o.veml_gain # VEML7700_GAIN_MIN
    THEN enable(VEML7700AutoGain_setGain(enable(o, FALSE), prevGain(o.veml_gain)), TRUE)
  ELSE IF o.veml_it # VEML7700_IT_MIN
    THEN enable(VEML7700AutoGain_setIntegrationTime(enable(o, FALSE), prevIt(o.veml_it)), TRUE)
  ELSE o

\* mutant: the lux value computed after the adjustment, from the new exposure
readLuxAuto_luxAfter(o0, count, low, high, apply_correction) ==
  LET o == BusRead(o0, "ALS_Data")
      n == IF TooLow(count, low) THEN readLuxAuto_low(o)
           ELSE IF TooHigh(count, high) THEN readLuxAuto_high(o)
           ELSE o
      lux == lazyNormalize(n, count)
      corrected == apply_correction /\ n.veml_gain = VEML7700_GAIN_1_8
                                    /\ n.veml_it = VEML7700_IT_25MS
  IN  [obj |-> n,
       ret |-> [val |-> lux, corrected |-> corrected,
                type |-> IF TooLow(count, low) THEN TOO_LOW
                         ELSE IF TooHigh(count, high) THEN TOO_HIGH ELSE GOOD]]

\* result: the object after the call and the returned {val, type}; val is
\* the uncorrected lux in units of 0.0036, corrected tells whether the quartic
\* correction was applied to it
readLuxAuto(o0, count, low, high, apply_correction) ==
  LET o == BusRead(o0, "ALS_Data")
      lux == lazyNormalize(o, count)
      corrected == apply_correction /\ o.veml_gain = VEML7700_GAIN_1_8
                                    /\ o.veml_it = VEML7700_IT_25MS
  IN  IF TooLow(count, low)
        THEN [obj |-> readLuxAuto_low(o),
              ret |-> [val |-> lux, corrected |-> corrected, type |-> TOO_LOW]]
      ELSE IF TooHigh(count, high)
        THEN [obj |-> readLuxAuto_high(o),
              ret |-> [val |-> lux, corrected |-> corrected, type |-> TOO_HIGH]]
      ELSE [obj |-> o,
            ret |-> [val |-> lux, corrected |-> corrected, type |-> GOOD]]

----------------------------------------------------------------------------
(* Adafruit_VEML7700::optimizeParams, src/unnamed/part_003 *)

\* C arrays, indexed from 0
At(tbl, i) == tbl[i + 1]

gainIndex == <<2, 3, 0, 1>>
integrationTimeIndex == <<2, 3, 4, 5, 0, 0, 0, 0, 1, 0, 0, 0, 0, 0, 0, 0>>
gainVals == <<VEML7700_GAIN_1_8, VEML7700_GAIN_1_4, VEML7700_GAIN_1, VEML7700_GAIN_2>>
integrationTimeVals == <<VEML7700_IT_25MS, VEML7700_IT_50MS, VEML7700_IT_100MS,
                         VEML7700_IT_200MS, VEML7700_IT_400MS, VEML7700_IT_800MS>>
gainValsMaxIndex == Len(gainVals) - 1
integrationValsMaxIndex == Len(integrationTimeVals) - 1

\* mutant: a change reported at the top of the range, where nothing moves
optimizeParams_low_alwaysChanged(gIndex, iIndex) ==
  IF gIndex < gainValsMaxIndex THEN <<gIndex + 1, iIndex, TRUE>>
  ELSE IF iIndex < integrationValsMaxIndex THEN <<gIndex, iIndex + 1, TRUE>>
  ELSE <<gIndex, iIndex, TRUE>>

\* raw <= lowThresh: the new <<gIndex, iIndex, somethingChanged>>
optimizeParams_low(gIndex, iIndex) ==
  IF gIndex < gainValsMaxIndex THEN <<gIndex + 1, iIndex, TRUE>>
  ELSE IF iIndex < integrationValsMaxIndex THEN <<gIndex, iIndex + 1, TRUE>>
  ELSE <<gIndex, iIndex, FALSE>>

\* mutant: gain lowered before the integration time is back at 100 ms
optimizeParams_high_gainFirst(gIndex, iIndex) ==
  IF gIndex > 0 THEN <<gIndex - 1, iIndex, TRUE>>
  ELSE IF iIndex > 0 THEN <<gIndex, iIndex - 1, TRUE>>
  ELSE <<gIndex, iIndex, FALSE>>

\* raw > hiThresh: the new <<gIndex, iIndex, somethingChanged>>
optimizeParams_high(gIndex, iIndex) ==
  IF iIndex > 2 THEN <<gIndex, iIndex - 1, TRUE>>
  ELSE IF gIndex > 0 THEN <<gIndex - 1, iIndex, TRUE>>
  ELSE IF iIndex > 0 THEN <<gIndex, iIndex - 1, TRUE>>
  ELSE <<gIndex, iIndex, FALSE>>

\* the comparison that sends optimizeParams into the increase branch
RaiseSensitivity(raw, low) == raw <= low

optimizeParams(o0, raw, low, high) ==
  LET o == BusRead(BusRead(o0, "ALS_Gain"), "ALS_Integration_Time")
      gIndex == At(gainIndex, getGain(o))
      iIndex == At(integrationTimeIndex, getIntegrationTime(o))
      new == IF RaiseSensitivity(raw, low) THEN optimizeParams_low(gIndex, iIndex)
             ELSE IF raw > high THEN optimizeParams_high(gIndex, iIndex)
             ELSE <<gIndex, iIndex, FALSE>>
      somethingChanged == new[3]
      wasEnabled == enabled(o)
      o1 == enable(BusRead(o, "ALS_Shutdown"), FALSE)
      o2 == Adafruit_VEML7700_setIntegrationTime(o1, At(integrationTimeVals, new[2]))
      o3 == Adafruit_VEML7700_setGain(o2, At(gainVals, new[1]))
  IN  [obj |-> IF somethingChanged THEN enable(o3, wasEnabled) ELSE o,
       ret |-> somethingChanged]

----------------------------------------------------------------------------
(* Lux of a raw count.  A lux value is [val, corrected]: val the uncorrected
   lux in units of 0.0036 (0.0576 / 16), corrected whether the quartic
   non-linearity correction is applied to it *)

\* normalize_resolution(value) * 0.0576 in units of 0.0036: the gain switch
\* contributes 1/2, 1, 4 or 8 (doubled here), the integration-time switch
\* 1/8 .. 4 (times 8 here)
normalize_resolution(o0, value) ==
  LET o1 == BusRead(o0, "ALS_Gain")
      g  == CASE getGain(o1) = VEML7700_GAIN_2 -> 1
              [] getGain(o1) = VEML7700_GAIN_1_4 -> 8
              [] getGain(o1) = VEML7700_GAIN_1_8 -> 16
              [] OTHER -> 2
      o2 == BusRead(o1, "ALS_Integration_Time")
      i  == CASE getIntegrationTime(o2) = VEML7700_IT_25MS -> 32
              [] getIntegrationTime(o2) = VEML7700_IT_50MS -> 16
              [] getIntegrationTime(o2) = VEML7700_IT_200MS -> 4
              [] getIntegrationTime(o2) = VEML7700_IT_400MS -> 2
              [] getIntegrationTime(o2) = VEML7700_IT_800MS -> 1
              [] OTHER -> 8
  IN  [obj |-> o2, val |-> value * g * i]

\* mutant: readLux() with the correction of readLuxNormalized()
readLux_corrected(o0, count) ==
  LET n == normalize_resolution(BusRead(o0, "ALS_Data"), count)
  IN  [obj |-> n.obj,
       ret |-> [val |-> n.val,
                corrected |-> getGain(n.obj) = VEML7700_GAIN_1_8
                                /\ getIntegrationTime(n.obj) = VEML7700_IT_25MS]]

readLux(o0, count) ==
  LET n == normalize_resolution(BusRead(o0, "ALS_Data"), count)
  IN  [obj |-> n.obj, ret |-> [val |-> n.val, corrected |-> FALSE]]

\* mutant: the correction keyed to the gain alone
readLuxNormalized_gainOnly(o0, count) ==
  LET r  == readLux(o0, count)
      o1 == BusRead(r.obj, "ALS_Gain")
  IN  [obj |-> o1,
       ret |-> [val |-> r.ret.val, corrected |-> getGain(o1) = VEML7700_GAIN_1_8]]

\* the second register read is skipped when the gain is not 1/8x (&&)
readLuxNormalized(o0, count) ==
  LET r  == readLux(o0, count)
      o1 == BusRead(r.obj, "ALS_Gain")
      o2 == IF getGain(o1) = VEML7700_GAIN_1_8
              THEN BusRead(o1, "ALS_Integration_Time") ELSE o1
  IN  [obj |-> o2,
       ret |-> [val |-> r.ret.val,
                corrected |-> getGain(o1) = VEML7700_GAIN_1_8
                                /\ getIntegrationTime(o2) = VEML7700_IT_25MS]]

\* mutant: the coefficients of 1/8x and 1/4x in the order of the gains, not of
\* their register codes
gainCoeff_byGain == <<2, 1, 8, 16>>

\* gainCoeff[] doubled and integrationTimeCoeff[] times 8, indexed by
\* register code
gainCoeff == <<2, 1, 16, 8>>
integrationTimeCoeff == <<8, 4, 2, 1, 8, 8, 8, 8, 16, 8, 8, 8, 32, 8, 8, 8>>

convertToLux(o0, value) ==
  LET o == BusRead(BusRead(o0, "ALS_Gain"), "ALS_Integration_Time")
      g == getGain(o)
      i == getIntegrationTime(o)
  IN  [obj |-> o,
       ret |-> [val |-> value * gainCoeff[g + 1] * integrationTimeCoeff[i + 1],
                corrected |-> g = VEML7700_GAIN_1_8 /\ i = VEML7700_IT_25MS]]

----------------------------------------------------------------------------
(* The value of a lux result, exactly.  The numbers of the quartic do not fit
   a machine word: naturals are sequences of base-10000 digits, lowest first,
   without leading zeros *)

RECURSIVE Big(_)
Big(n) == IF n = 0 THEN <<>> ELSE <<n % 10000>> \o Big(n \div 10000)

RECURSIVE BigAddC(_, _, _)
BigAddC(a, b, c) ==
  IF a = <<>> /\ b = <<>> THEN Big(c)
  ELSE LET x == (IF a = <<>> THEN 0 ELSE Head(a)) + (IF b = <<>> THEN 0 ELSE Head(b)) + c
       IN  <<x % 10000>> \o BigAddC(IF a = <<>> THEN <<>> ELSE Tail(a),
                                    IF b = <<>> THEN <<>> ELSE Tail(b), x \div 10000)

BigAdd(a, b) == BigAddC(a, b, 0)

RECURSIVE BigMulDigit(_, _, _)
BigMulDigit(a, m, c) ==
  IF a = <<>> THEN Big(c)
  ELSE LET x == Head(a) * m + c
       IN  <<x % 10000>> \o BigMulDigit(Tail(a), m, x \div 10000)

\* a * 10000^k
BigShift(a, k) == IF a = <<>> THEN <<>> ELSE [i \in 1..k |-> 0] \o a

RECURSIVE BigMul(_, _)
BigMul(a, b) ==
  IF a = <<>> \/ b = <<>> THEN <<>>
  ELSE BigAdd(IF Head(b) = 0 THEN <<>> ELSE BigMulDigit(a, Head(b), 0),
              BigShift(BigMul(a, Tail(b)), 1))

RECURSIVE BigLeqFrom(_, _, _)
BigLeqFrom(a, b, i) ==
  IF i = 0 THEN TRUE
  ELSE IF a[i] # b[i] THEN a[i] < b[i]
  ELSE BigLeqFrom(a, b, i - 1)

BigLeq(a, b) == IF Len(a) # Len(b) THEN Len(a) < Len(b) ELSE BigLeqFrom(a, b, Len(a))

\* mutant: the cubic coefficient typed as 9.3924e-8
Correction_exponentTypo(X) ==
  LET x  == Big(X)
      x2 == BigMul(x, x)
      x3 == BigMul(x2, x)
      x4 == BigMul(x3, x)
  IN  [pos |-> BigAdd(BigMul(Big(60135), x4),
                      BigAdd(BigShift(BigMul(Big(81488), x2), 4),
                             BigShift(BigMul(Big(100230), x), 6))),
       neg |-> BigShift(BigMul(Big(939240), x3), 2)]

\* (((6.0135e-13 * lux - 9.3924e-9) * lux + 8.1488e-5) * lux + 1.0023) * lux
\* for lux = X * 10^-4, in units of 10^-33 lux, as the difference pos - neg:
\* 60135 X^4 + 81488 X^2 10^16 + 10023 X 10^25 - 93924 X^3 10^8
Correction(X) ==
  LET x  == Big(X)
      x2 == BigMul(x, x)
      x3 == BigMul(x2, x)
      x4 == BigMul(x3, x)
  IN  [pos |-> BigAdd(BigMul(Big(60135), x4),
                      BigAdd(BigShift(BigMul(Big(81488), x2), 4),
                             BigShift(BigMul(Big(100230), x), 6))),
       neg |-> BigShift(BigMul(Big(93924), x3), 2)]

\* the number a lux result stands for, in units of 10^-33 lux, as pos - neg;
\* val is in units of 0.0036 = 36 * 10^-4 lux
luxValue(ret) ==
  IF ret.corrected THEN Correction(36 * ret.val)
  ELSE [pos |-> BigShift(BigMul(Big(10), Big(36 * ret.val)), 7), neg |-> <<>>]

----------------------------------------------------------------------------
(* Tables indexed by a register field, src/unnamed/part_003.  A lookup is
   <<table, index>>; a subscript outside the table reads whatever lies
   behind it, any 16-bit value *)

getPowerSaveMode(o) == ReadBits(o.Power_Saving, 2, 1)

setPowerSaveMode(o, mode) ==
  [o EXCEPT !.Power_Saving = WriteBits(@, 2, 1, mode),
            !.bus = Append(@, <<"w", "PowerSave_Mode", mode % 4>>)]

InTable(tbl, i) == i \in 0 .. (Len(tbl) - 1)

\* what may lie behind a table
Garbage == {0, 65535}

\* the values tbl[i] can yield
Lookup(tbl, i) == IF InTable(tbl, i) THEN {tbl[i + 1]} ELSE Garbage

integrationTimes == <<25, 50, 100, 200, 400, 800>>

\* mutant: the table without its entry for power-save mode 4
powerSaverTimes_short == <<500, 1000, 2000>>
powerSaverTimes == <<500, 1000, 2000, 4000>>
powerOnWait == 3

\* the refresh times the call can return, and the lookups it makes
getRefreshTime(o0) ==
  LET o == BusRead(BusRead(o0, "PowerSave_Mode"), "ALS_Integration_Time")
      psm == getPowerSaveMode(o)
      it == getIntegrationTime(o)
  IN  [obj |-> o,
       ret |-> {(a + b + powerOnWait) % 65536 :
                  a \in Lookup(powerSaverTimes, psm),
                  b \in UNION {Lookup(integrationTimes, iIndex) :
                                iIndex \in Lookup(integrationTimeIndex, it)}},
       lookups |-> {<<powerSaverTimes, psm>>, <<integrationTimeIndex, it>>}
                     \cup {<<integrationTimes, iIndex>> :
                              iIndex \in Lookup(integrationTimeIndex, it)}]

\* 1.0 / gainCoeff[gain], in eighths (gainCoeff is kept doubled)
getGainValue(o0) ==
  LET o == BusRead(o0, "ALS_Gain")
      g == getGain(o)
  IN  [obj |-> o,
       ret |-> {IF c = 0 THEN 0 ELSE 16 \div c : c \in Lookup(gainCoeff, g)},
       lookups |-> {<<gainCoeff, g>>}]

\* the lookups of convertToLux()
convertToLux_lookups(o) ==
  {<<gainCoeff, getGain(o)>>, <<integrationTimeCoeff, getIntegrationTime(o)>>}

\* the lookups of optimizeParams(): the two index tables, and with the
\* stepped indices the two value tables when something changed
optimizeParams_lookups(o, raw, low, high) ==
  LET g == getGain(o)
      it == getIntegrationTime(o)
      stepped == {IF RaiseSensitivity(raw, low) THEN optimizeParams_low(gIndex, iIndex)
                  ELSE IF raw > high THEN optimizeParams_high(gIndex, iIndex)
                  ELSE <<gIndex, iIndex, FALSE>> :
                    gIndex \in Lookup(gainIndex, g),
                    iIndex \in Lookup(integrationTimeIndex, it)}
  IN  {<<gainIndex, g>>, <<integrationTimeIndex, it>>}
        \cup UNION {{<<integrationTimeVals, new[2]>>, <<gainVals, new[1]>>} :
                      new \in {n \in stepped : n[3]}}

----------------------------------------------------------------------------
(* begin() *)

\* mutant: begin() leaves the power-save register alone
Adafruit_VEML7700_begin_noPowerSave(o0, ack) ==
  LET o  == [o0 EXCEPT !.bus = Append(@, <<"probe">>)]
      o1 == enable(o, FALSE)
      o2 == interruptEnable(o1, FALSE)
      o3 == setPersistence(o2, VEML7700_PERS_1)
      o4 == Adafruit_VEML7700_setGain(o3, VEML7700_GAIN_1)
      o5 == Adafruit_VEML7700_setIntegrationTime(o4, VEML7700_IT_100MS)
  IN  IF ~ack THEN [obj |-> o, ret |-> FALSE]
      ELSE [obj |-> enable(o5, TRUE), ret |-> TRUE]

\* mutant: the registers are programmed before the result of the probe is
\* looked at
Adafruit_VEML7700_begin_writeFirst(o0, ack) ==
  LET o  == [o0 EXCEPT !.bus = Append(@, <<"probe">>)]
      o1 == enable(o, FALSE)
      o2 == interruptEnable(o1, FALSE)
      o3 == setPersistence(o2, VEML7700_PERS_1)
      o4 == Adafruit_VEML7700_setGain(o3, VEML7700_GAIN_1)
      o5 == Adafruit_VEML7700_setIntegrationTime(o4, VEML7700_IT_100MS)
      o6 == powerSaveEnable(o5, FALSE)
  IN  IF ~ack THEN [obj |-> o6, ret |-> FALSE]
      ELSE [obj |-> enable(o6, TRUE), ret |-> TRUE]

Adafruit_VEML7700_begin(o0, ack) ==
  LET o  == [o0 EXCEPT !.bus = Append(@, <<"probe">>)]
      o1 == enable(o, FALSE)
      o2 == interruptEnable(o1, FALSE)
      o3 == setPersistence(o2, VEML7700_PERS_1)
      o4 == Adafruit_VEML7700_setGain(o3, VEML7700_GAIN_1)
      o5 == Adafruit_VEML7700_setIntegrationTime(o4, VEML7700_IT_100MS)
      o6 == powerSaveEnable(o5, FALSE)
  IN  IF ~ack THEN [obj |-> o, ret |-> FALSE]
      ELSE [obj |-> enable(o6, TRUE), ret |-> TRUE]

\* thresholds programmed by VEML7700AutoGain::begin
DefaultLow == 100
DefaultHigh == 10000

VEML7700AutoGain_begin(o0, ack) ==
  LET b == Adafruit_VEML7700_begin(o0, ack)
      o == BusRead(BusRead(b.obj, "ALS_Gain"), "ALS_Integration_Time")
  IN  IF ~b.ret THEN b
      ELSE [obj |-> [o EXCEPT !.veml_gain = getGain(b.obj),
                              !.veml_it = getIntegrationTime(b.obj)],
            ret |-> TRUE]

----------------------------------------------------------------------------
(* Adafruit_VEML7700::luxAutoSensor and its chart helpers *)

computetime == 20

ChartGain(G) ==
  CASE G = 1 -> VEML7700_GAIN_1_8
    [] G = 2 -> VEML7700_GAIN_1_4
    [] G = 3 -> VEML7700_GAIN_1
    [] OTHER -> VEML7700_GAIN_2

ChartIT(IT) ==
  CASE IT = -2 -> VEML7700_IT_25MS
    [] IT = -1 -> VEML7700_IT_50MS
    [] IT = 0 -> VEML7700_IT_100MS
    [] IT = 1 -> VEML7700_IT_200MS
    [] IT = 2 -> VEML7700_IT_400MS
    [] OTHER -> VEML7700_IT_800MS

IntegrationTime(IT) ==
  CASE ChartIT(IT) = VEML7700_IT_800MS -> 800
    [] ChartIT(IT) = VEML7700_IT_400MS -> 400
    [] ChartIT(IT) = VEML7700_IT_200MS -> 200
    [] ChartIT(IT) = VEML7700_IT_100MS -> 100
    [] ChartIT(IT) = VEML7700_IT_50MS -> 50
    [] ChartIT(IT) = VEML7700_IT_25MS -> 25

\* ChartResolution in units of 0.0036 (its base)
ChartResolution(IT, G) ==
  LET g == CASE ChartGain(G) = VEML7700_GAIN_1 -> 2
             [] ChartGain(G) = VEML7700_GAIN_1_4 -> 8
             [] ChartGain(G) = VEML7700_GAIN_1_8 -> 16
             [] OTHER -> 1
      i == CASE ChartIT(IT) = VEML7700_IT_400MS -> 2
             [] ChartIT(IT) = VEML7700_IT_200MS -> 4
             [] ChartIT(IT) = VEML7700_IT_100MS -> 8
             [] ChartIT(IT) = VEML7700_IT_50MS -> 16
             [] ChartIT(IT) = VEML7700_IT_25MS -> 32
             [] OTHER -> 1
  IN  g * i

Idle == [pc |-> "idle"]

\* locals at the entry of the first loop
lasEnter ==
  [pc |-> "loop1", integrationtime |-> 0, gain |-> 1, first |-> TRUE,
   n |-> 0, delayed |-> 0, bus |-> <<>>, samples |-> <<>>]

\* what one measurement saw: the exposure programmed in the sensor when the
\* sample was read, and where the sample lies with respect to 100 and 10000
lasSample(o, als) ==
  [gain |-> getGain(o), it |-> getIntegrationTime(o),
   above100 |-> als > 100, atLeast10000 |-> als >= 10000]

\* mutant: one more integration-time step after 800 ms
Loop1MoreIt_le(integrationtime) == integrationtime <= 3

\* the loop conditions of the first loop
Loop1MoreGain(gain) == gain < 4
Loop1MoreIt(integrationtime) == integrationtime < 3

\* mutant: the second loop never gives up
Loop2GiveUp_never(integrationtime) == FALSE

\* mutant: the second loop gives up one step early, before 25 ms was tried
Loop2GiveUp_early(integrationtime) == integrationtime <= -2

\* the loop condition of the second loop
Loop2GiveUp(integrationtime) == integrationtime <= -3

\* mutant: the exposure programmed after the re-arm
lasMeasure_writeAfterArm(o0, f, withGain) ==
  LET o1 == enable(enable(o0, FALSE), TRUE)
      o2 == Adafruit_VEML7700_setIntegrationTime(o1, ChartIT(f.integrationtime))
      o3 == IF withGain THEN Adafruit_VEML7700_setGain(o2, ChartGain(f.gain)) ELSE o2
      d  == IntegrationTime(f.integrationtime) + computetime
      o4 == [o3 EXCEPT !.bus = Append(@, <<"delay", d>>)]
  IN  [obj |-> BusRead(o4, "ALS_Data"), delay |-> d]

\* measurement made at the top of an iteration: program the exposure, re-arm,
\* wait, read.  withGain: the first loop also writes the gain.
lasMeasure(o0, f, withGain) ==
  LET o1 == Adafruit_VEML7700_setIntegrationTime(o0, ChartIT(f.integrationtime))
      o2 == IF withGain THEN Adafruit_VEML7700_setGain(o1, ChartGain(f.gain)) ELSE o1
      o3 == enable(enable(o2, FALSE), TRUE)
      d  == IntegrationTime(f.integrationtime) + computetime
      o4 == [o3 EXCEPT !.bus = Append(@, <<"delay", d>>)]
  IN  [obj |-> BusRead(o4, "ALS_Data"), delay |-> d]

\* mutant: the end of the sensitivity range reported as an error
lasLoop1_errorAtMax(f, als) ==
  IF als <= 100
    THEN IF Loop1MoreGain(f.gain)
           THEN [done |-> FALSE, f |-> [f EXCEPT !.first = FALSE, !.gain = @ + 1]]
         ELSE IF Loop1MoreIt(f.integrationtime)
           THEN [done |-> FALSE, f |-> [f EXCEPT !.first = FALSE, !.integrationtime = @ + 1]]
         ELSE [done |-> TRUE,
               ret |-> [kind |-> "Return1", error |-> TRUE, poly |-> FALSE, val |-> -2]]
  ELSE IF f.first
    THEN [done |-> FALSE, f |-> [f EXCEPT !.pc = "loop2", !.integrationtime = @ - 1]]
  ELSE [done |-> TRUE,
        ret |-> [kind |-> "Return2", error |-> FALSE, poly |-> FALSE,
                 val |-> als * ChartResolution(f.integrationtime, f.gain)]]

\* one iteration of the first loop ("low light environment"); result: the
\* next frame, or the returned value when the call returns
lasLoop1(f, als) ==
  IF als <= 100
    THEN IF Loop1MoreGain(f.gain)
           THEN [done |-> FALSE, f |-> [f EXCEPT !.first = FALSE, !.gain = @ + 1]]
         ELSE IF Loop1MoreIt(f.integrationtime)
           THEN [done |-> FALSE, f |-> [f EXCEPT !.first = FALSE, !.integrationtime = @ + 1]]
         ELSE [done |-> TRUE,
               ret |-> [kind |-> "Return1", error |-> FALSE, poly |-> FALSE,
                        val |-> als * ChartResolution(f.integrationtime, f.gain)]]
  ELSE IF f.first
    THEN [done |-> FALSE, f |-> [f EXCEPT !.pc = "loop2", !.integrationtime = @ - 1]]
  ELSE [done |-> TRUE,
        ret |-> [kind |-> "Return2", error |-> FALSE, poly |-> FALSE,
                 val |-> als * ChartResolution(f.integrationtime, f.gain)]]

\* one iteration of the second loop; poly: the returned value is the quartic
\* polynomial of val
lasLoop2(f, als) ==
  IF als < 10000
    THEN [done |-> TRUE,
          ret |-> [kind |-> "Return3", error |-> FALSE, poly |-> TRUE, val |-> als]]
  ELSE IF Loop2GiveUp(f.integrationtime - 1)
    THEN [done |-> TRUE,
          ret |-> [kind |-> "Error2", error |-> TRUE, poly |-> FALSE, val |-> -2]]
  ELSE [done |-> FALSE, f |-> [f EXCEPT !.integrationtime = @ - 1]]

----------------------------------------------------------------------------
(* The state machine *)

AutoGain == "VEML7700AutoGain"
Base == "Adafruit_VEML7700"

NoCall == [op |-> "none"]

Init ==
  /\ driver \in {AutoGain, Base}
  /\ begun = FALSE
  /\ ALS_Config \in InitConfigs
  /\ Power_Saving = InitPowerSaving(ALS_Config)
  /\ veml_gain = 0
  /\ veml_it = 0
  /\ low_threshold = 0
  /\ high_threshold = 0
  /\ \E t \in CtorThresholds :
       IF driver = Base THEN lowThresh = t[1] /\ hiThresh = t[2]
                        ELSE lowThresh = 0 /\ hiThresh = 0
  /\ las = Idle
  /\ call = NoCall

\* write the object back to the state
Store(o) ==
  /\ ALS_Config' = o.ALS_Config
  /\ Power_Saving' = o.Power_Saving
  /\ veml_gain' = o.veml_gain
  /\ veml_it' = o.veml_it

\* a call can start: the object is set up, no call is running and the caller
\* has taken the result of the previous call
Ready == begun /\ las.pc = "idle" /\ call = NoCall

Begin ==
  /\ las.pc = "idle"
  /\ call = NoCall
  /\ \E ack \in BOOLEAN :
       LET r == IF driver = AutoGain THEN VEML7700AutoGain_begin(Obj, ack)
                                     ELSE Adafruit_VEML7700_begin(Obj, ack)
       IN  /\ Store(r.obj)
           /\ begun' = (begun \/ r.ret)
           /\ low_threshold' = IF driver = AutoGain /\ r.ret THEN DefaultLow ELSE low_threshold
           /\ high_threshold' = IF driver = AutoGain /\ r.ret THEN DefaultHigh ELSE high_threshold
           /\ call' = [op |-> "begin", arg |-> ack, pre |-> Obj, ret |-> r.ret,
                       bus |-> r.obj.bus]
  /\ UNCHANGED <<driver, lowThresh, hiThresh, las>>

Enable ==
  /\ Ready
  /\ \E en \in BOOLEAN :
       LET o == enable(Obj, en)
       IN  /\ Store(o)
           /\ call' = [op |-> "enable", arg |-> en, pre |-> Obj, bus |-> o.bus]
  /\ UNCHANGED <<driver, begun, low_threshold, high_threshold, lowThresh, hiThresh, las>>

SetGain ==
  /\ Ready
  /\ \E gain \in GainArgs :
       LET o == IF driver = AutoGain THEN VEML7700AutoGain_setGain(Obj, gain)
                                     ELSE Adafruit_VEML7700_setGain(Obj, gain)
       IN  /\ Store(o)
           /\ call' = [op |-> "setGain", arg |-> gain, pre |-> Obj, bus |-> o.bus]
  /\ UNCHANGED <<driver, begun, low_threshold, high_threshold, lowThresh, hiThresh, las>>

SetIntegrationTime ==
  /\ Ready
  /\ \E it \in ItArgs :
       LET o == IF driver = AutoGain THEN VEML7700AutoGain_setIntegrationTime(Obj, it)
                                     ELSE Adafruit_VEML7700_setIntegrationTime(Obj, it)
       IN  /\ Store(o)
           /\ call' = [op |-> "setIntegrationTime", arg |-> it, pre |-> Obj, bus |-> o.bus]
  /\ UNCHANGED <<driver, begun, low_threshold, high_threshold, lowThresh, hiThresh, las>>

SetAutoThreshold ==
  /\ Ready
  /\ driver = AutoGain
  /\ \E t \in AutoThresholds :
       /\ low_threshold' = t[1]
       /\ high_threshold' = t[2]
       /\ call' = [op |-> "setAutoThreshold", arg |-> t, pre |-> Obj, bus |-> <<>>]
  /\ UNCHANGED <<driver, begun, ALS_Config, Power_Saving, veml_gain, veml_it,
                 lowThresh, hiThresh, las>>

ReadLuxAuto ==
  /\ Ready
  /\ driver = AutoGain
  /\ \E count \in RawCounts, apply_correction \in BOOLEAN :
       LET r == readLuxAuto(Obj, count, low_threshold, high_threshold, apply_correction)
       IN  /\ Store(r.obj)
           /\ call' = [op |-> "readLuxAuto", count |-> count, apply |-> apply_correction,
                       pre |-> Obj, ret |-> r.ret, bus |-> r.obj.bus]
  /\ UNCHANGED <<driver, begun, low_threshold, high_threshold, lowThresh, hiThresh, las>>

OptimizeParams ==
  /\ Ready
  /\ driver = Base
  /\ \E raw \in RawCounts :
       LET r == optimizeParams(Obj, raw, lowThresh, hiThresh)
       IN  /\ Store(r.obj)
           /\ call' = [op |-> "optimizeParams", count |-> raw, pre |-> Obj,
                       ret |-> r.ret, bus |-> r.obj.bus]
  /\ UNCHANGED <<driver, begun, low_threshold, high_threshold, lowThresh, hiThresh, las>>

LuxAutoSensorEnter ==
  /\ Ready
  /\ las' = lasEnter
  /\ UNCHANGED <<driver, begun, ALS_Config, Power_Saving, veml_gain, veml_it,
                 low_threshold, high_threshold, lowThresh, hiThresh, call>>

\* one iteration of either loop with the sample the sensor delivers
LuxAutoSensorStep(loop) ==
  /\ las.pc = loop
  /\ \E als \in RawCounts :
       LET m == lasMeasure(Obj, las, loop = "loop1")
           f == [las EXCEPT !.n = @ + 1, !.delayed = @ + m.delay,
                            !.bus = @ \o m.obj.bus,
                            !.samples = Append(@, lasSample(m.obj, als))]
           r == IF loop = "loop1" THEN lasLoop1(f, als) ELSE lasLoop2(f, als)
       IN  /\ Store(m.obj)
           /\ IF r.done
                THEN /\ las' = Idle
                     /\ call' = [op |-> "luxAutoSensor", count |-> als,
                                 ret |-> r.ret, bus |-> f.bus, n |-> f.n,
                                 delayed |-> f.delayed, samples |-> f.samples,
                                 gain |-> getGain(m.obj), it |-> getIntegrationTime(m.obj)]
                ELSE /\ las' = r.f
                     /\ call' = call
  /\ UNCHANGED <<driver, begun, low_threshold, high_threshold, lowThresh, hiThresh>>

LuxAutoSensorLoop1 == LuxAutoSensorStep("loop1")
LuxAutoSensorLoop2 == LuxAutoSensorStep("loop2")

\* the caller takes the result of the completed call
Return ==
  /\ call # NoCall
  /\ call' = NoCall
  /\ UNCHANGED <<driver, begun, ALS_Config, Power_Saving, veml_gain, veml_it,
                 low_threshold, high_threshold, lowThresh, hiThresh, las>>

Next ==
  \/ Begin
  \/ Enable
  \/ SetGain
  \/ SetIntegrationTime
  \/ SetAutoThreshold
  \/ ReadLuxAuto
  \/ OptimizeParams
  \/ LuxAutoSensorEnter
  \/ LuxAutoSensorLoop1
  \/ LuxAutoSensorLoop2
  \/ Return

Spec == Init /\ [][Next]_vars

\* A sketch that uses a VEML7700AutoGain object through the operations of
\* that class only, with the integration-time codes its documentation lists
\* (src/unnamed/part_001)
InitAutoGain == Init /\ driver = AutoGain

SetValidIntegrationTime == SetIntegrationTime /\ call'.arg \in ItCodes

NextAutoGain ==
  \/ Begin
  \/ Enable
  \/ SetGain
  \/ SetValidIntegrationTime
  \/ SetAutoThreshold
  \/ ReadLuxAuto
  \/ Return

AutoGainSpec == InitAutoGain /\ [][NextAutoGain]_vars

\* The reading operations.  They leave the object as it is.
ReadLux ==
  /\ Ready
  /\ \E count \in RawCounts :
       LET r == readLux(Obj, count)
       IN  call' = [op |-> "readLux", count |-> count, pre |-> Obj,
                    ret |-> r.ret, bus |-> r.obj.bus]
  /\ UNCHANGED <<driver, begun, ALS_Config, Power_Saving, veml_gain, veml_it,
                 low_threshold, high_threshold, lowThresh, hiThresh, las>>

ReadLuxNormalized ==
  /\ Ready
  /\ \E count \in RawCounts :
       LET r == readLuxNormalized(Obj, count)
       IN  call' = [op |-> "readLuxNormalized", count |-> count, pre |-> Obj,
                    ret |-> r.ret, bus |-> r.obj.bus]
  /\ UNCHANGED <<driver, begun, ALS_Config, Power_Saving, veml_gain, veml_it,
                 low_threshold, high_threshold, lowThresh, hiThresh, las>>

ConvertToLux ==
  /\ Ready
  /\ driver = Base
  /\ \E value \in RawCounts :
       LET r == convertToLux(Obj, value)
       IN  call' = [op |-> "convertToLux", count |-> value, pre |-> Obj,
                    ret |-> r.ret, bus |-> r.obj.bus]
  /\ UNCHANGED <<driver, begun, ALS_Config, Power_Saving, veml_gain, veml_it,
                 low_threshold, high_threshold, lowThresh, hiThresh, las>>

GetIntegrationMs ==
  /\ Ready
  /\ driver = AutoGain
  /\ call' = [op |-> "getIntegrationMs", pre |-> Obj,
              ret |-> getIntegrationMs(veml_it), bus |-> <<>>]
  /\ UNCHANGED <<driver, begun, ALS_Config, Power_Saving, veml_gain, veml_it,
                 low_threshold, high_threshold, lowThresh, hiThresh, las>>

\* luxAutoSensor() looking up the resolution of a chart position
ChartPositions == (-2 .. 3) \X (1 .. 4)

ChartResolutionCall ==
  /\ Ready
  /\ driver = Base
  /\ \E p \in ChartPositions :
       call' = [op |-> "ChartResolution", IT |-> p[1], G |-> p[2], pre |-> Obj,
                ret |-> ChartResolution(p[1], p[2]), bus |-> <<>>]
  /\ UNCHANGED <<driver, begun, ALS_Config, Power_Saving, veml_gain, veml_it,
                 low_threshold, high_threshold, lowThresh, hiThresh, las>>

\* A sketch that sets an exposure and reads lux values
\* (src/unnamed/part_001, src/unnamed/part_002)
NextRead ==
  \/ Begin
  \/ SetGain
  \/ SetIntegrationTime
  \/ ReadLux
  \/ ReadLuxNormalized
  \/ ConvertToLux
  \/ ReadLuxAuto
  \/ GetIntegrationMs
  \/ ChartResolutionCall
  \/ Return

ReadSpec == Init /\ [][NextRead]_vars

----------------------------------------------------------------------------
(* The setters of the configuration register *)

InterruptEnable ==
  /\ Ready
  /\ \E en \in BOOLEAN :
       LET o == interruptEnable(Obj, en)
       IN  /\ Store(o)
           /\ call' = [op |-> "interruptEnable", arg |-> en, pre |-> Obj, bus |-> o.bus]
  /\ UNCHANGED <<driver, begun, low_threshold, high_threshold, lowThresh, hiThresh, las>>

SetPersistence ==
  /\ Ready
  /\ \E pers \in PersArgs :
       LET o == setPersistence(Obj, pers)
       IN  /\ Store(o)
           /\ call' = [op |-> "setPersistence", arg |-> pers, pre |-> Obj, bus |-> o.bus]
  /\ UNCHANGED <<driver, begun, low_threshold, high_threshold, lowThresh, hiThresh, las>>

NextRegister ==
  \/ Begin
  \/ Enable
  \/ InterruptEnable
  \/ SetPersistence
  \/ SetIntegrationTime
  \/ SetGain
  \/ Return

RegisterSpec == Init /\ [][NextRegister]_vars

----------------------------------------------------------------------------
(* The sketches that adjust the exposure one step per call *)

NextAdjust ==
  \/ Begin
  \/ SetGain
  \/ SetIntegrationTime
  \/ SetAutoThreshold
  \/ ReadLuxAuto
  \/ OptimizeParams
  \/ Return

AdjustSpec == Init /\ [][NextAdjust]_vars

\* A VEML7700AutoGain sketch that leaves the exposure to readLuxAuto()
NextAutoOnly ==
  \/ Begin
  \/ Enable
  \/ SetAutoThreshold
  \/ ReadLuxAuto
  \/ GetIntegrationMs
  \/ Return

AutoOnlySpec == InitAutoGain /\ [][NextAutoOnly]_vars

\* The part_003 driver with every value its register fields can hold
InitBase == Init /\ driver = Base

\* every code of the 4-bit integration-time field
ItFieldArgs == 0 .. 15
\* the four power-save modes and one argument wider than the field
PowerSaveModeArgs == (0 .. 3) \cup {7}

SetIntegrationTimeField ==
  /\ Ready
  /\ driver = Base
  /\ \E it \in ItFieldArgs :
       LET o == Adafruit_VEML7700_setIntegrationTime(Obj, it)
       IN  /\ Store(o)
           /\ call' = [op |-> "setIntegrationTime", arg |-> it, pre |-> Obj, bus |-> o.bus]
  /\ UNCHANGED <<driver, begun, low_threshold, high_threshold, lowThresh, hiThresh, las>>

SetPowerSaveMode ==
  /\ Ready
  /\ \E mode \in PowerSaveModeArgs :
       LET o == setPowerSaveMode(Obj, mode)
       IN  /\ Store(o)
           /\ call' = [op |-> "setPowerSaveMode", arg |-> mode, pre |-> Obj, bus |-> o.bus]
  /\ UNCHANGED <<driver, begun, low_threshold, high_threshold, lowThresh, hiThresh, las>>

GetRefreshTime ==
  /\ Ready
  /\ driver = Base
  /\ LET r == getRefreshTime(Obj)
     IN  \E ret \in r.ret :
           call' = [op |-> "getRefreshTime", pre |-> Obj, ret |-> ret,
                    lookups |-> r.lookups, bus |-> r.obj.bus]
  /\ UNCHANGED <<driver, begun, ALS_Config, Power_Saving, veml_gain, veml_it,
                 low_threshold, high_threshold, lowThresh, hiThresh, las>>

GetGainValue ==
  /\ Ready
  /\ driver = Base
  /\ LET r == getGainValue(Obj)
     IN  \E ret \in r.ret :
           call' = [op |-> "getGainValue", pre |-> Obj, ret |-> ret,
                    lookups |-> r.lookups, bus |-> r.obj.bus]
  /\ UNCHANGED <<driver, begun, ALS_Config, Power_Saving, veml_gain, veml_it,
                 low_threshold, high_threshold, lowThresh, hiThresh, las>>

NextTable ==
  \/ Begin
  \/ SetGain
  \/ SetIntegrationTimeField
  \/ SetPowerSaveMode
  \/ ConvertToLux
  \/ OptimizeParams
  \/ GetRefreshTime
  \/ GetGainValue
  \/ Return

TableSpec == InitBase /\ [][NextTable]_vars

\* the loops of luxAutoSensor() run on: delay() returns and the next
\* iteration starts
FairSpec == Spec /\ WF_vars(LuxAutoSensorLoop1) /\ WF_vars(LuxAutoSensorLoop2)

----------------------------------------------------------------------------
(* Vocabulary of the properties: the sensitivity order of the data model *)

\* gain 1/8 < 1/4 < 1 < 2
GainRank(g) ==
  CASE g = VEML7700_GAIN_1_8 -> 0
    [] g = VEML7700_GAIN_1_4 -> 1
    [] g = VEML7700_GAIN_1 -> 2
    [] g = VEML7700_GAIN_2 -> 3
    [] OTHER -> -10

\* integration time 25 < 50 < 100 < 200 < 400 < 800 ms
ItRank(it) ==
  CASE it = VEML7700_IT_25MS -> 0
    [] it = VEML7700_IT_50MS -> 1
    [] it = VEML7700_IT_100MS -> 2
    [] it = VEML7700_IT_200MS -> 3
    [] it = VEML7700_IT_400MS -> 4
    [] it = VEML7700_IT_800MS -> 5
    [] OTHER -> -10

Rank100ms == ItRank(VEML7700_IT_100MS)

\* the exposure an operation works on: the cached one for readLuxAuto, the
\* programmed one for optimizeParams, as <<gain, integration time>>
CachedExposure(o) == <<o.veml_gain, o.veml_it>>
RegExposure(o) == <<getGain(o), getIntegrationTime(o)>>
ValidExposure(e) == e[1] \in GainCodes /\ e[2] \in ItCodes

\* one step up / down of one setting, the other one kept
GainUp(a, b) == GainRank(b[1]) = GainRank(a[1]) + 1 /\ b[2] = a[2]
GainDown(a, b) == GainRank(b[1]) = GainRank(a[1]) - 1 /\ b[2] = a[2]
ItUp(a, b) == ItRank(b[2]) = ItRank(a[2]) + 1 /\ b[1] = a[1]
ItDown(a, b) == ItRank(b[2]) = ItRank(a[2]) - 1 /\ b[1] = a[1]

\* the increase order of the controller: integration time up to 100 ms, then
\* gain up to 2x, then integration time up to 800 ms
IncreaseOrder(a, b) ==
  IF ItRank(a[2]) < Rank100ms THEN ItUp(a, b)
  ELSE IF a[1] # VEML7700_GAIN_2 THEN GainUp(a, b)
  ELSE IF a[2] # VEML7700_IT_800MS THEN ItUp(a, b)
  ELSE b = a

\* the decrease order: integration time down to 100 ms, then gain down to
\* 1/8x, then integration time down to 25 ms
DecreaseOrder(a, b) ==
  IF ItRank(a[2]) > Rank100ms THEN ItDown(a, b)
  ELSE IF a[1] # VEML7700_GAIN_1_8 THEN GainDown(a, b)
  ELSE IF a[2] # VEML7700_IT_25MS THEN ItDown(a, b)
  ELSE b = a

MostSensitive == <<VEML7700_GAIN_2, VEML7700_IT_800MS>>
LeastSensitive == <<VEML7700_GAIN_1_8, VEML7700_IT_25MS>>

\* the band of the data model: low < high
ValidThresholds == low_threshold < high_threshold

AfterReadLuxAuto == call.op = "readLuxAuto"
AfterOptimizeParams == call.op = "optimizeParams"
AfterLuxAutoSensor == call.op = "luxAutoSensor"

\* the registers a call wrote, in order
Writes(bus) == SelectSeq(bus, LAMBDA e : e[1] = "w")

----------------------------------------------------------------------------
(* Single-step adjustment: order of the steps *)

\* C1: after a readLuxAuto() call that started from a valid cached exposure
\* with a raw count below the low threshold, the result is TOO_LOW and the
\* exposure has moved by the increase order: integration time one step up
\* (gain kept) if it was below 100 ms; else gain one step up (integration time
\* kept) if gain was not 2x; else integration time one step up if it was not
\* 800 ms.  The register field of the other setting is left as it was.
C1_ReadLuxAutoIncreaseOrder ==
  (AfterReadLuxAuto /\ ValidExposure(CachedExposure(call.pre))
     /\ call.count < low_threshold)
  => /\ call.ret.type = TOO_LOW
     /\ IncreaseOrder(CachedExposure(call.pre), CachedExposure(Obj))
     /\ veml_gain = call.pre.veml_gain => getGain(Obj) = getGain(call.pre)
     /\ veml_gain # call.pre.veml_gain => getGain(Obj) = veml_gain
     /\ veml_it = call.pre.veml_it => getIntegrationTime(Obj) = getIntegrationTime(call.pre)
     /\ veml_it # call.pre.veml_it => getIntegrationTime(Obj) = veml_it

\* C1 witness: the scenario of the specification, (1/8x, 100 ms), raw count 50,
\* thresholds (100, 10000), ends TOO_LOW at (1/4x, 100 ms)
C1_Witness ==
  /\ AfterReadLuxAuto
  /\ CachedExposure(call.pre) = <<VEML7700_GAIN_1_8, VEML7700_IT_100MS>>
  /\ call.count = 50 /\ low_threshold = 100 /\ high_threshold = 10000
  /\ call.ret.type = TOO_LOW
  /\ CachedExposure(Obj) = <<VEML7700_GAIN_1_4, VEML7700_IT_100MS>>
  /\ RegExposure(Obj) = <<VEML7700_GAIN_1_4, VEML7700_IT_100MS>>

\* C2: after a readLuxAuto() call (valid cached exposure, low < high) or an
\* optimizeParams(raw) call (valid programmed exposure) with a raw count above
\* the high threshold, the exposure has moved by the decrease order:
\* integration time one step down if it was above 100 ms; else gain one step
\* down (integration time kept) if gain was not 1/8x; else integration time
\* one step down if it was not 25 ms.  readLuxAuto() reports TOO_HIGH.
C2_DecreaseOrder ==
  /\ (AfterReadLuxAuto /\ ValidExposure(CachedExposure(call.pre))
        /\ ValidThresholds /\ call.count > high_threshold)
     => /\ call.ret.type = TOO_HIGH
        /\ DecreaseOrder(CachedExposure(call.pre), CachedExposure(Obj))
        /\ veml_gain # call.pre.veml_gain => getGain(Obj) = veml_gain
        /\ veml_it # call.pre.veml_it => getIntegrationTime(Obj) = veml_it
  /\ (AfterOptimizeParams /\ ValidExposure(RegExposure(call.pre))
        /\ lowThresh < hiThresh /\ call.count > hiThresh)
     => DecreaseOrder(RegExposure(call.pre), RegExposure(Obj))

\* C2 witness: raw count 20000 at (1x, 100 ms) with thresholds (100, 10000)
\* gives TOO_HIGH and (1/4x, 100 ms)
C2_Witness ==
  /\ AfterReadLuxAuto
  /\ CachedExposure(call.pre) = <<VEML7700_GAIN_1, VEML7700_IT_100MS>>
  /\ call.count = 20000 /\ low_threshold = 100 /\ high_threshold = 10000
  /\ call.ret.type = TOO_HIGH
  /\ CachedExposure(Obj) = <<VEML7700_GAIN_1_4, VEML7700_IT_100MS>>
  /\ RegExposure(Obj) = <<VEML7700_GAIN_1_4, VEML7700_IT_100MS>>

\* C3 (as claimed): after optimizeParams(raw) with raw <= lowThresh from a
\* valid programmed exposure, the exposure has moved by the increase order:
\* integration time first while it is below 100 ms, gain only from 100 ms on,
\* integration time again once gain is 2x.
C3_OptimizeParamsIncreaseOrder ==
  (AfterOptimizeParams /\ ValidExposure(RegExposure(call.pre))
     /\ call.count <= lowThresh)
  => IncreaseOrder(RegExposure(call.pre), RegExposure(Obj))

\* C4: one readLuxAuto() or optimizeParams(raw) call from a valid exposure
\* changes at most one of gain and integration time, and a changed setting
\* moves to the adjacent one: up after a too-low reading, down after a
\* too-high reading.  For readLuxAuto() this is the cached exposure, and the
\* programmed one as well when the two agreed at entry.
C4_OneAdjacentStep ==
  /\ (AfterReadLuxAuto /\ ValidExposure(CachedExposure(call.pre)))
     => LET a == CachedExposure(call.pre)
            b == CachedExposure(Obj)
        IN  /\ \/ b = a
               \/ call.ret.type = TOO_LOW /\ (GainUp(a, b) \/ ItUp(a, b))
               \/ call.ret.type = TOO_HIGH /\ (GainDown(a, b) \/ ItDown(a, b))
            /\ RegExposure(call.pre) = a => RegExposure(Obj) = b
  /\ (AfterOptimizeParams /\ ValidExposure(RegExposure(call.pre)))
     => LET a == RegExposure(call.pre)
            b == RegExposure(Obj)
        IN  \/ b = a
            \/ call.count <= lowThresh /\ (GainUp(a, b) \/ ItUp(a, b))
            \/ call.count > hiThresh /\ (GainDown(a, b) \/ ItDown(a, b))

\* C4 witness: optimizeParams has raised the gain by one step after a low
\* count, the integration time kept
C4_Witness ==
  /\ AfterOptimizeParams
  /\ ValidExposure(RegExposure(call.pre))
  /\ call.count <= lowThresh
  /\ GainUp(RegExposure(call.pre), RegExposure(Obj))

----------------------------------------------------------------------------
(* Single-step adjustment: what a call leaves alone *)

\* the call wrote no register and left the cached exposure as it was
NothingChanged ==
  /\ Writes(call.bus) = <<>>
  /\ ALS_Config = call.pre.ALS_Config
  /\ Power_Saving = call.pre.Power_Saving
  /\ CachedExposure(Obj) = CachedExposure(call.pre)

\* C5: readLuxAuto() at the most sensitive exposure (2x, 800 ms) with a raw
\* count below the low threshold returns TOO_LOW and changes nothing: cached
\* gain and integration time, the register fields and the shutdown bit are
\* untouched.  At the least sensitive exposure (1/8x, 25 ms) a raw count
\* above the high threshold (low < high) returns TOO_HIGH with nothing changed.
C5_NoChangeAtTheExtremes ==
  /\ (AfterReadLuxAuto /\ CachedExposure(call.pre) = MostSensitive
        /\ call.count < low_threshold)
     => (call.ret.type = TOO_LOW /\ NothingChanged)
  /\ (AfterReadLuxAuto /\ CachedExposure(call.pre) = LeastSensitive
        /\ ValidThresholds /\ call.count > high_threshold)
     => (call.ret.type = TOO_HIGH /\ NothingChanged)

\* C5 witness: a too-low reading at (2x, 800 ms) with the sensor enabled
C5_Witness ==
  /\ AfterReadLuxAuto
  /\ CachedExposure(call.pre) = MostSensitive
  /\ RegExposure(call.pre) = MostSensitive
  /\ enabled(call.pre)
  /\ call.count < low_threshold
  /\ call.ret.type = TOO_LOW

\* C6: readLuxAuto() with low_threshold <= count <= high_threshold returns
\* GOOD and leaves the cached gain and integration time, the register fields
\* and the enabled flag unchanged; it writes no register.
C6_InBandIsGoodAndUnchanged ==
  (AfterReadLuxAuto /\ low_threshold <= call.count /\ call.count <= high_threshold)
  => (call.ret.type = GOOD /\ NothingChanged)

\* C6 witness: a count equal to the high threshold, read with the sensor
\* disabled by the caller
C6_Witness ==
  /\ AfterReadLuxAuto
  /\ call.count = high_threshold
  /\ low_threshold < high_threshold
  /\ ~enabled(call.pre)
  /\ call.ret.type = GOOD

\* C7 (as claimed): with low < high, readLuxAuto() returns TOO_LOW for every
\* raw count less than or equal to the low threshold, and TOO_HIGH for every
\* raw count greater than the high threshold.
C7_ClassificationAsClaimed ==
  (AfterReadLuxAuto /\ ValidThresholds)
  => /\ call.count <= low_threshold => call.ret.type = TOO_LOW
     /\ call.count > high_threshold => call.ret.type = TOO_HIGH

\* C7 (amended): with low < high, readLuxAuto() returns TOO_LOW for every raw
\* count strictly less than the low threshold, GOOD for a raw count equal to
\* the low threshold, and TOO_HIGH for every raw count greater than the high
\* threshold.
C7_Classification ==
  (AfterReadLuxAuto /\ ValidThresholds)
  => /\ call.count < low_threshold => call.ret.type = TOO_LOW
     /\ call.count = low_threshold => call.ret.type = GOOD
     /\ call.count > high_threshold => call.ret.type = TOO_HIGH

\* C7 witness: the raw count equals the low threshold set by
\* setAutoThreshold(100, 10000) and the reading is classified GOOD
C7_Witness ==
  /\ AfterReadLuxAuto
  /\ low_threshold = 100 /\ high_threshold = 10000
  /\ call.count = 100
  /\ call.ret.type = GOOD

\* C8 (as claimed): optimizeParams(raw) with lowThresh <= raw <= hiThresh,
\* from a valid exposure, returns false and leaves gain, integration time and
\* the enabled flag unchanged.
C8_OptimizeParamsInBand ==
  (AfterOptimizeParams /\ ValidExposure(RegExposure(call.pre))
     /\ lowThresh <= call.count /\ call.count <= hiThresh)
  => (call.ret = FALSE /\ ALS_Config = call.pre.ALS_Config)

----------------------------------------------------------------------------
(* Full convergence: luxAutoSensor() *)

\* C9: a luxAutoSensor() call makes at most 8 measurements, whatever the
\* sensor returns, and a running call always returns.
C9_LuxAutoSensorTerminates ==
  /\ [](las.pc # "idle" => las.n < 8)
  /\ [](AfterLuxAutoSensor => call.n <= 8)
  /\ (las.pc # "idle") ~> (las.pc = "idle" /\ AfterLuxAutoSensor)

\* C9 witness: a call has returned after walking the whole first loop, from
\* (1/8x, 100 ms) up to (2x, 800 ms)
C9_Witness ==
  /\ AfterLuxAutoSensor
  /\ call.n = 7
  /\ call.ret.kind = "Return1"

\* C10 (as claimed): when luxAutoSensor() returns a non-error value, the raw
\* count of its last measurement is inside the band (100 < count < 10000),
\* unless that measurement was taken at (2x, 800 ms) or at (1/8x, 25 ms).
C10_ReturnsInBandOrAtBoundary ==
  (AfterLuxAutoSensor /\ ~call.ret.error)
  => \/ 100 < call.count /\ call.count < 10000
     \/ <<call.gain, call.it>> \in {MostSensitive, LeastSensitive}

OutOfRangeSamples(samples) ==
  /\ Len(samples) >= 3
  /\ samples[1].gain = VEML7700_GAIN_1_8 /\ samples[1].it = VEML7700_IT_100MS
  /\ samples[1].above100
  /\ samples[2].gain = VEML7700_GAIN_1_8 /\ samples[2].it = VEML7700_IT_50MS
  /\ samples[2].atLeast10000
  /\ samples[3].gain = VEML7700_GAIN_1_8 /\ samples[3].it = VEML7700_IT_25MS
  /\ samples[3].atLeast10000

\* C12: luxAutoSensor() returns the error value -2.0 exactly when its first
\* reading, at (1/8x, 100 ms), is above 100 and the readings at (1/8x, 50 ms)
\* and (1/8x, 25 ms) that follow are both >= 10000; the call then ends with
\* that third measurement, and no call returns -1.0.
C12_OutOfRangeError ==
  /\ AfterLuxAutoSensor
     => /\ (call.ret.error /\ call.ret.val = -2) <=> OutOfRangeSamples(call.samples)
        /\ call.ret.error => (call.n = 3 /\ Len(call.samples) = 3 /\ las.pc = "idle")
        /\ call.ret.error => call.ret.val = -2
        /\ call.ret.val # -1
  /\ (las.pc # "idle" /\ Len(las.samples) >= 3) => ~OutOfRangeSamples(las.samples)

\* C12 witness: a call has returned -2.0 after a third reading of 65535
C12_Witness ==
  /\ AfterLuxAutoSensor
  /\ call.ret.error
  /\ call.ret.val = -2
  /\ call.count = 65535
  /\ call.n = 3

\* C13: in one luxAutoSensor() call the durations passed to delay() -
\* integration time of the measured exposure plus 20 ms, once per
\* measurement - add up to at most 2000 ms, during the call and at its end.
C13_DelayAtMost2000ms ==
  /\ las.pc # "idle" => las.delayed <= 2000
  /\ AfterLuxAutoSensor => call.delayed <= 2000
  /\ AfterLuxAutoSensor
       => \A i \in 1..Len(call.samples) :
            \E j \in 1..Len(call.bus) :
              call.bus[j] = <<"delay", getIntegrationMs(call.samples[i].it) + 20>>

\* C13 witness: the longest call, seven measurements up to (2x, 800 ms),
\* has waited 1940 ms
C13_Witness ==
  /\ AfterLuxAutoSensor
  /\ call.n = 7
  /\ call.delayed = 1940

----------------------------------------------------------------------------
(* The re-arm discipline: disable, configure, enable *)

\* entries of the bus log
Disable == <<"w", "ALS_Shutdown", 1>>
Arm == <<"w", "ALS_Shutdown", 0>>
ConfigWrite(e) == e[1] = "w" /\ e[2] \in {"ALS_Gain", "ALS_Integration_Time"}

\* the write at position i of the log is made while the sensor is disabled by
\* an enable(false) of the same call: a Disable precedes it with no Arm in
\* between
WrittenWhileDisabled(bus, i) ==
  \E j \in 1..(i - 1) :
    /\ bus[j] = Disable
    /\ \A k \in (j + 1)..(i - 1) : bus[k] # Arm

\* the write at position i is followed by an enable() call
EnableFollows(bus, i) ==
  \E j \in (i + 1)..Len(bus) : bus[j] \in {Arm, Disable}

\* every gain or integration-time write of the log is bracketed
Bracketed(bus) ==
  \A i \in 1..Len(bus) :
    ConfigWrite(bus[i]) => (WrittenWhileDisabled(bus, i) /\ EnableFollows(bus, i))

ConfigWritten(bus) == \E i \in 1..Len(bus) : ConfigWrite(bus[i])
LastWrite(bus) == Writes(bus)[Len(Writes(bus))]

\* C14: in begin(), readLuxAuto() and optimizeParams(), every write of the
\* gain or integration-time field comes after an enable(false) of the same
\* call with no enable(true) in between, and an enable() call follows it.  A
\* begin() or readLuxAuto() call that wrote a setting makes enable(true) its
\* last write; the last write of optimizeParams() is enable(wasEnabled),
\* which re-arms the sensor that was enabled at entry.
C14_DisableConfigureEnable ==
  (call.op \in {"begin", "readLuxAuto", "optimizeParams"})
  => /\ Bracketed(call.bus)
     /\ (call.op \in {"begin", "readLuxAuto"} /\ ConfigWritten(call.bus))
        => (LastWrite(call.bus) = Arm /\ enabled(Obj))
     /\ (call.op = "optimizeParams" /\ ConfigWritten(call.bus))
        => /\ LastWrite(call.bus) = (IF enabled(call.pre) THEN Arm ELSE Disable)
           /\ enabled(Obj) = enabled(call.pre)
     /\ (call.op = "begin" /\ call.ret) => ConfigWritten(call.bus)
     /\ (call.op = "optimizeParams" /\ call.ret) => ConfigWritten(call.bus)

\* C14 witness: optimizeParams() on an enabled sensor has written disable,
\* integration time, gain, enable, in this order
C14_Witness ==
  /\ AfterOptimizeParams
  /\ call.ret
  /\ enabled(call.pre)
  /\ Len(Writes(call.bus)) = 4
  /\ Writes(call.bus)[1] = Disable
  /\ Writes(call.bus)[2][2] = "ALS_Integration_Time"
  /\ Writes(call.bus)[3][2] = "ALS_Gain"
  /\ Writes(call.bus)[4] = Arm

\* C15 (as claimed): in every iteration of both loops of luxAutoSensor(), the
\* gain and integration-time fields are written only while the sensor is
\* disabled: each write follows an enable(false) of the call with no
\* enable(true) in between, and an enable() call follows it.
C15_LuxAutoSensorBracketed ==
  /\ AfterLuxAutoSensor => Bracketed(call.bus)
  /\ las.pc # "idle" => Bracketed(las.bus)

\* C16 (as claimed): a setGain(gain) or setIntegrationTime(it) call disables
\* the sensor, writes the new field, and re-enables the sensor: its register
\* writes are enable(false), the field, enable(true).
C16_SettersReArm ==
  /\ call.op = "setGain"
     => Writes(call.bus) = <<Disable, <<"w", "ALS_Gain", call.arg>>, Arm>>
  /\ call.op = "setIntegrationTime"
     => Writes(call.bus) = <<Disable, <<"w", "ALS_Integration_Time", call.arg>>, Arm>>

----------------------------------------------------------------------------
(* The cached exposure of VEML7700AutoGain *)

\* C17: once VEML7700AutoGain::begin() has succeeded, after every call of
\* setGain, setIntegrationTime (valid codes), setAutoThreshold, enable,
\* readLuxAuto and begin, the cached exposure is the programmed one:
\* veml_gain is the gain field and veml_it the integration-time field of the
\* configuration register, and both are valid codes.
C17_CacheIsRegister ==
  begun => /\ veml_gain = getGain(Obj)
           /\ veml_it = getIntegrationTime(Obj)
           /\ ValidExposure(CachedExposure(Obj))

\* C17 witness: a readLuxAuto() call has changed the integration time that
\* setIntegrationTime had set before, and cache and register agree on the new one
C17_Witness ==
  /\ AfterReadLuxAuto
  /\ call.pre.veml_it = VEML7700_IT_800MS
  /\ call.ret.type = TOO_HIGH
  /\ veml_it = VEML7700_IT_400MS
  /\ getIntegrationTime(Obj) = VEML7700_IT_400MS

\* C18 (as claimed): when the inherited luxAutoSensor() returns on a
\* VEML7700AutoGain object, veml_gain and veml_it equal the gain and
\* integration-time fields of the configuration register.
C18_CacheAfterLuxAutoSensor ==
  (AfterLuxAutoSensor /\ driver = AutoGain)
  => (veml_gain = getGain(Obj) /\ veml_it = getIntegrationTime(Obj))

----------------------------------------------------------------------------
(* Single-step mode: one measurement, the value of the exposure it was taken at *)

\* gain in eighths: 1/8x, 1/4x, 1x, 2x
GainEighths(g) ==
  CASE g = VEML7700_GAIN_1_8 -> 1
    [] g = VEML7700_GAIN_1_4 -> 2
    [] g = VEML7700_GAIN_1 -> 8
    [] g = VEML7700_GAIN_2 -> 16

\* lux of a raw count taken at exposure e, in units of 0.0036 lux (the
\* resolution at 2x, 800 ms): halving the gain or the integration time
\* doubles the lux per count
LuxUnits(count, e) == count * (16 \div GainEighths(e[1])) * Pow2(5 - ItRank(e[2]))

ReadsOf(bus, field) == SelectSeq(bus, LAMBDA e : e = <<"r", field>>)

\* C19: a readLuxAuto() call reads the ALS data register exactly once and
\* writes at most one of the gain and integration-time fields, once; from a
\* valid cached exposure, at most one of cached gain and integration time
\* has changed, and the returned lux value is the one of the raw count at the
\* exposure cached at call entry, also when the call has changed the
\* exposure; the correction's condition is taken from the entry exposure too.
C19_OneMeasurementEntryExposure ==
  AfterReadLuxAuto
  => /\ Len(ReadsOf(call.bus, "ALS_Data")) = 1
     /\ Len(SelectSeq(call.bus, ConfigWrite)) <= 1
     /\ ValidExposure(CachedExposure(call.pre))
        => /\ veml_gain = call.pre.veml_gain \/ veml_it = call.pre.veml_it
           /\ call.ret.val = LuxUnits(call.count, CachedExposure(call.pre))
           /\ call.ret.corrected
                = (call.apply /\ CachedExposure(call.pre) = LeastSensitive)

\* C19 witness: a count of 50 at (1/8x, 100 ms) is returned as 50 * 0.4608
\* lux (128 units per count) although the call has raised the gain to 1/4x
C19_Witness ==
  /\ AfterReadLuxAuto
  /\ CachedExposure(call.pre) = <<VEML7700_GAIN_1_8, VEML7700_IT_100MS>>
  /\ CachedExposure(Obj) = <<VEML7700_GAIN_1_4, VEML7700_IT_100MS>>
  /\ call.count = 50
  /\ call.ret.val = 6400

----------------------------------------------------------------------------
(* begin() *)

\* C20: begin() returns true exactly when the device acknowledges, and then
\* leaves gain 1x, integration time 100 ms, persistence 1 sample, interrupt
\* disabled, power save disabled and the sensor enabled; on a
\* VEML7700AutoGain object the cached exposure is (1x, 100 ms) and the auto
\* thresholds are (100, 10000).
C20_BeginDefaults ==
  call.op = "begin"
  => /\ call.ret = call.arg
     /\ call.ret
        => /\ getGain(Obj) = VEML7700_GAIN_1
           /\ getIntegrationTime(Obj) = VEML7700_IT_100MS
           /\ getPersistence(Obj) = VEML7700_PERS_1
           /\ ~interruptEnabled(Obj)
           /\ ~powerSaveEnabled(Obj)
           /\ enabled(Obj)
           /\ begun
     /\ (call.ret /\ driver = AutoGain)
        => /\ CachedExposure(Obj) = <<VEML7700_GAIN_1, VEML7700_IT_100MS>>
           /\ low_threshold = 100
           /\ high_threshold = 10000

\* C20 witness: VEML7700AutoGain::begin() has succeeded on a sensor that an
\* earlier run had left shut down at (1/4x, 25 ms) with interrupt and power
\* save enabled
C20_Witness ==
  /\ call.op = "begin"
  /\ call.ret
  /\ driver = AutoGain
  /\ RegExposure(call.pre) = <<VEML7700_GAIN_1_4, VEML7700_IT_25MS>>
  /\ interruptEnabled(call.pre)
  /\ powerSaveEnabled(call.pre)
  /\ ~enabled(call.pre)

\* C21: a begin() call on a device that does not acknowledge returns false
\* and has written no register: configuration and power-save registers are
\* as before, the sensor is not enabled by the call; on a VEML7700AutoGain
\* object the cached exposure and the thresholds are as before, too.
C21_NoAckNoWrite ==
  /\ [](call.op = "begin" /\ ~call.arg
          => /\ ~call.ret
             /\ Writes(call.bus) = <<>>
             /\ ALS_Config = call.pre.ALS_Config
             /\ Power_Saving = call.pre.Power_Saving
             /\ enabled(Obj) = enabled(call.pre)
             /\ CachedExposure(Obj) = CachedExposure(call.pre))
  /\ [][(call = NoCall /\ call'.op = "begin" /\ ~call'.arg)
          => /\ low_threshold' = low_threshold
             /\ high_threshold' = high_threshold
             /\ begun' = begun]_vars

\* C21 witness: begin() fails on a VEML7700AutoGain object that had been set
\* up before and given the thresholds (10000, 100) and 50 ms
C21_Witness ==
  /\ call.op = "begin"
  /\ ~call.ret
  /\ driver = AutoGain
  /\ low_threshold = 10000 /\ high_threshold = 100
  /\ veml_it = VEML7700_IT_50MS
  /\ call.bus = << <<"probe">> >>

----------------------------------------------------------------------------
(* Calibration: raw count to lux *)

AfterReadLux == call.op = "readLux"
AfterReadLuxNormalized == call.op = "readLuxNormalized"
AfterConvertToLux == call.op = "convertToLux"

\* C22: readLuxAuto(true), readLuxNormalized() and convertToLux(raw) apply
\* the non-linearity correction exactly when the exposure they work with -
\* the cached one for readLuxAuto, the programmed one for the other two - is
\* (1/8x, 25 ms); at every valid exposure the value the correction is or is
\* not applied to is the uncorrected lux of the raw count; readLuxAuto(false)
\* never applies it.
C22_CorrectionOnlyAtLeastSensitive ==
  /\ (AfterReadLuxAuto /\ ValidExposure(CachedExposure(call.pre)))
     => /\ call.apply => (call.ret.corrected <=> CachedExposure(call.pre) = LeastSensitive)
        /\ ~call.apply => ~call.ret.corrected
        /\ call.ret.val = LuxUnits(call.count, CachedExposure(call.pre))
  /\ ((AfterReadLuxNormalized \/ AfterConvertToLux) /\ ValidExposure(RegExposure(call.pre)))
     => /\ call.ret.corrected <=> RegExposure(call.pre) = LeastSensitive
        /\ call.ret.val = LuxUnits(call.count, RegExposure(call.pre))

\* C22 witness: readLuxNormalized() at (1/8x, 50 ms), the neighbour of the
\* corrected exposure, returns 1000 counts uncorrected
C22_Witness ==
  /\ AfterReadLuxNormalized
  /\ RegExposure(call.pre) = <<VEML7700_GAIN_1_8, VEML7700_IT_50MS>>
  /\ call.count = 1000
  /\ ~call.ret.corrected
  /\ call.ret.val = 256000

\* C23 (as claimed): readLux() returns the calibrated lux of the raw count
\* under the programmed exposure: the uncorrected lux, with the
\* non-linearity correction applied when the exposure is (1/8x, 25 ms).
C23_ReadLuxCalibratedAsClaimed ==
  (AfterReadLux /\ ValidExposure(RegExposure(call.pre)))
  => /\ call.ret.val = LuxUnits(call.count, RegExposure(call.pre))
     /\ call.ret.corrected <=> RegExposure(call.pre) = LeastSensitive

\* C23 (amended): readLux() returns 0.0576 x the normalised count of the raw
\* count under the programmed gain and integration time, and applies the
\* non-linearity correction at no exposure, (1/8x, 25 ms) included.
C23_ReadLuxUncorrected ==
  (AfterReadLux /\ ValidExposure(RegExposure(call.pre)))
  => /\ call.ret.val = LuxUnits(call.count, RegExposure(call.pre))
     /\ ~call.ret.corrected

\* C23 witness: readLux() at (1/8x, 25 ms) returns the full-scale count as
\* 65535 * 1.8432 lux, uncorrected
C23_Witness ==
  /\ AfterReadLux
  /\ RegExposure(call.pre) = LeastSensitive
  /\ call.count = 65535
  /\ call.ret.val = 65535 * 512
  /\ ~call.ret.corrected

\* C24 (as claimed): a non-error value returned by luxAutoSensor() is the
\* calibrated lux of the last measurement: the last raw count times the
\* resolution of the exposure it was measured at, with the correction applied
\* (to that lux value) exactly when the exposure is (1/8x, 25 ms).
C24_LuxAutoSensorCalibrated ==
  (AfterLuxAutoSensor /\ ~call.ret.error)
  => LET e == <<call.gain, call.it>>
     IN  /\ call.ret.poly <=> e = LeastSensitive
         /\ ~call.ret.poly => call.ret.val = LuxUnits(call.count, e)
         \* the polynomial's argument (lux) is the uncorrected lux (0.0036 lux)
         /\ call.ret.poly => call.ret.val * 10000 = 36 * LuxUnits(call.count, e)

\* the lux-per-count factor of the claim in units of 0.0036: 16 x gain
\* coefficient x integration coefficient
ClaimedGainCoeffTimes2(g) ==
  CASE g = VEML7700_GAIN_1_8 -> 16
    [] g = VEML7700_GAIN_1_4 -> 8
    [] g = VEML7700_GAIN_1 -> 2
    [] g = VEML7700_GAIN_2 -> 1

ClaimedItCoeffTimes8(it) ==
  CASE it = VEML7700_IT_25MS -> 32
    [] it = VEML7700_IT_50MS -> 16
    [] it = VEML7700_IT_100MS -> 8
    [] it = VEML7700_IT_200MS -> 4
    [] it = VEML7700_IT_400MS -> 2
    [] it = VEML7700_IT_800MS -> 1

ClaimedFactor(e) == ClaimedGainCoeffTimes2(e[1]) * ClaimedItCoeffTimes8(e[2])

\* C25: at each of the 24 valid exposures every implementation uses the
\* lux-per-count factor 0.0576 x gain coefficient x integration coefficient:
\* normalize_resolution (readLux), lazyNormalize (readLuxAuto), the
\* gainCoeff/integrationTimeCoeff tables (convertToLux) and ChartResolution.
C25_SameFactorEverywhere ==
  /\ (AfterReadLux /\ ValidExposure(RegExposure(call.pre)))
     => call.ret.val = call.count * ClaimedFactor(RegExposure(call.pre))
  /\ (AfterReadLuxAuto /\ ValidExposure(CachedExposure(call.pre)))
     => call.ret.val = call.count * ClaimedFactor(CachedExposure(call.pre))
  /\ (AfterConvertToLux /\ ValidExposure(RegExposure(call.pre)))
     => call.ret.val = call.count * ClaimedFactor(RegExposure(call.pre))
  /\ call.op = "ChartResolution"
     => call.ret = ClaimedFactor(<<ChartGain(call.G), ChartIT(call.IT)>>)

\* C25 witness: convertToLux(1000) at (1/4x, 50 ms): 1000 * 0.0576 * 4 * 2
C25_Witness ==
  /\ AfterConvertToLux
  /\ RegExposure(call.pre) = <<VEML7700_GAIN_1_4, VEML7700_IT_50MS>>
  /\ call.count = 1000
  /\ call.ret.val = 128000

\* a <= b for two exact values pos - neg
ValueLeq(a, b) == BigLeq(BigAdd(a.pos, b.neg), BigAdd(b.pos, a.neg))

\* number of intervals of the grid over 0..65535 on which monotonicity is
\* checked besides the sampled raw counts
MonotoneSteps == 256

GridPoint(k) == (k * 65535) \div MonotoneSteps

\* C26: at every valid exposure, (1/8x, 25 ms) with its quartic correction
\* included, the lux that convertToLux(raw) returns does not decrease when
\* raw grows: it is at most the lux of every larger raw count at the same
\* exposure, and at least 0; along a grid over 0..65535 the lux of a grid
\* point is at most the one of its successor raw + 1, which is at most the
\* one of the next grid point.
C26_ConvertToLuxMonotone ==
  (AfterConvertToLux /\ ValidExposure(RegExposure(call.pre)))
  => /\ ValueLeq(luxValue([val |-> 0, corrected |-> FALSE]), luxValue(call.ret))
     /\ \A raw \in RawCounts :
          raw >= call.count
          => ValueLeq(luxValue(call.ret), luxValue(convertToLux(call.pre, raw).ret))
     /\ call.count = 0
        => \A k \in 0..(MonotoneSteps - 1) :
             LET a == luxValue(convertToLux(call.pre, GridPoint(k)).ret)
                 b == luxValue(convertToLux(call.pre, GridPoint(k) + 1).ret)
                 c == luxValue(convertToLux(call.pre, GridPoint(k + 1)).ret)
             IN  ValueLeq(a, b) /\ ValueLeq(b, c)

\* C26 witness: convertToLux(65535) at (1/8x, 25 ms), the largest corrected
\* value, above the one of 30001 counts
C26_Witness ==
  /\ AfterConvertToLux
  /\ RegExposure(call.pre) = LeastSensitive
  /\ call.count = 65535
  /\ call.ret.corrected
  /\ ~ValueLeq(luxValue(call.ret), luxValue(convertToLux(call.pre, 30001).ret))

----------------------------------------------------------------------------
(* Integration time in milliseconds *)

AfterGetIntegrationMs == call.op = "getIntegrationMs"

\* the duration the data sheet gives to each integration-time code, 0 for
\* the codes it reserves
ClaimedMs ==
  [code \in 0..15 |->
     CASE code = 0 -> 100 [] code = 1 -> 200 [] code = 2 -> 400
       [] code = 3 -> 800 [] code = 8 -> 50 [] code = 12 -> 25
       [] OTHER -> 0]

\* C27: getIntegrationMs() returns the milliseconds of the cached
\* integration-time code, 0 for a code outside the six documented ones; in
\* the state a readLuxAuto() call leaves after changing the integration time,
\* the cached code is the documented code just programmed into the sensor,
\* so getIntegrationMs() yields the new duration (twice the old one after
\* TOO_LOW, half of it after TOO_HIGH) and the caller's wait of that duration
\* plus 50 ms covers the next exposure.
C27_IntegrationMs ==
  /\ AfterGetIntegrationMs
     => /\ call.ret = (IF call.pre.veml_it \in 0..15
                         THEN ClaimedMs[call.pre.veml_it] ELSE 0)
        /\ NothingChanged
  /\ (AfterReadLuxAuto /\ ValidExposure(CachedExposure(call.pre))
        /\ veml_it # call.pre.veml_it)
     => /\ veml_it \in ItCodes
        /\ veml_it = getIntegrationTime(Obj)
        /\ getIntegrationMs(veml_it) = ClaimedMs[getIntegrationTime(Obj)]
        /\ getIntegrationMs(veml_it) =
             (IF call.ret.type = TOO_LOW
                THEN 2 * ClaimedMs[call.pre.veml_it]
                ELSE ClaimedMs[call.pre.veml_it] \div 2)
        /\ getIntegrationMs(veml_it) + 50 >= ClaimedMs[getIntegrationTime(Obj)]

\* C27 witness: getIntegrationMs() answering 50 for the cached code 8 while
\* the gain is 1/8x, the exposure readLuxAuto() leaves after TOO_LOW at
\* (1/8x, 25 ms)
C27_Witness ==
  /\ AfterGetIntegrationMs
  /\ call.pre.veml_it = VEML7700_IT_50MS
  /\ call.pre.veml_gain = VEML7700_GAIN_1_8
  /\ call.ret = 50

----------------------------------------------------------------------------
(* optimizeParams: the returned status *)

\* C28: optimizeParams(raw) on a sensor programmed with a valid exposure
\* returns true exactly when the gain or the integration time programmed
\* after the call differs from the one before it; when it returns false it
\* has written no register and the configuration is the one it found.
C28_ChangedIffExposureDiffers ==
  (AfterOptimizeParams /\ ValidExposure(RegExposure(call.pre)))
  => /\ call.ret <=> RegExposure(Obj) # RegExposure(call.pre)
     /\ ~call.ret => /\ Writes(call.bus) = <<>>
                     /\ ALS_Config = call.pre.ALS_Config
                     /\ Power_Saving = call.pre.Power_Saving

\* C28 witness: optimizeParams() answering false to a low raw count at
\* (2x, 800 ms), where no further step exists
C28_Witness ==
  /\ AfterOptimizeParams
  /\ RegExposure(call.pre) = MostSensitive
  /\ RaiseSensitivity(call.count, lowThresh)
  /\ ~call.ret
  /\ Writes(call.bus) = <<>>

----------------------------------------------------------------------------
(* Configuration register: one field per setter *)

Setters == {"enable", "interruptEnable", "setPersistence",
            "setIntegrationTime", "setGain"}

AfterSetter == call.op \in Setters

\* the bits of the configuration register a setter owns: <<first bit, width>>
OwnField ==
  [op \in Setters |->
     CASE op = "enable" -> <<0, 1>>
       [] op = "interruptEnable" -> <<1, 1>>
       [] op = "setPersistence" -> <<4, 2>>
       [] op = "setIntegrationTime" -> <<6, 4>>
       [] op = "setGain" -> <<11, 2>>]

BitOf(reg, n) == (reg \div (2 ^ n)) % 2
FieldBits(op) == OwnField[op][1] .. (OwnField[op][1] + OwnField[op][2] - 1)

\* what each getter answers, as one record
Getters(o) ==
  [enabled |-> enabled(o), interruptEnabled |-> interruptEnabled(o),
   getPersistence |-> getPersistence(o),
   getIntegrationTime |-> getIntegrationTime(o), getGain |-> getGain(o)]

GetterOf ==
  [op \in Setters |->
     CASE op = "enable" -> "enabled"
       [] op = "interruptEnable" -> "interruptEnabled"
       [] op = "setPersistence" -> "getPersistence"
       [] op = "setIntegrationTime" -> "getIntegrationTime"
       [] op = "setGain" -> "getGain"]

\* C29: the fields of enable (bit 0), interruptEnable (bit 1), setPersistence
\* (bits 5:4), setIntegrationTime (bits 9:6) and setGain (bits 12:11) share
\* no bit; after a setter every bit of the configuration register outside
\* the setter's own field is what it was, the bus carries one write, the
\* one of that field, the getter of the field answers the argument (cut to
\* the field's width; enabled() answers true for shutdown bit 0), the
\* getters of all other fields answer what they answered before, and the
\* power-saving register is untouched.
C29_SetterWritesOwnField ==
  /\ \A a, b \in Setters : a # b => FieldBits(a) \cap FieldBits(b) = {}
  /\ AfterSetter
     => /\ \A n \in (0 .. 15) \ FieldBits(call.op) :
             BitOf(ALS_Config, n) = BitOf(call.pre.ALS_Config, n)
        /\ Len(Writes(call.bus)) = 1
        /\ Power_Saving = call.pre.Power_Saving
        /\ \A g \in DOMAIN Getters(Obj) :
             g # GetterOf[call.op] => Getters(Obj)[g] = Getters(call.pre)[g]
        /\ Getters(Obj)[GetterOf[call.op]] =
             (IF call.op \in {"enable", "interruptEnable"} THEN call.arg
              ELSE call.arg % (2 ^ OwnField[call.op][2]))
        /\ call.op = "enable" => BitOf(ALS_Config, 0) = BoolBit(~call.arg)
        /\ call.op = "interruptEnable" => BitOf(ALS_Config, 1) = BoolBit(call.arg)

\* C29 witness: setPersistence(VEML7700_PERS_4) on a running sensor with the
\* interrupt enabled at (1/4x, 25 ms) and persistence 1: every other field
\* is set, and kept
C29_Witness ==
  /\ call.op = "setPersistence"
  /\ call.arg = 2
  /\ getPersistence(call.pre) = 1
  /\ getPersistence(Obj) = 2
  /\ interruptEnabled(Obj)
  /\ enabled(Obj)
  /\ getGain(Obj) = VEML7700_GAIN_1_4
  /\ getIntegrationTime(Obj) = VEML7700_IT_25MS

----------------------------------------------------------------------------
(* Single-step adjustment: consecutive calls *)

\* the exposure the single-step call of the driver works on
WorkingExposure(o) ==
  IF driver = AutoGain THEN CachedExposure(o) ELSE RegExposure(o)

InSync(o) == CachedExposure(o) = RegExposure(o) \/ driver = Base

\* the band of the driver in use is a band: low < high
BandOrdered ==
  IF driver = AutoGain THEN ValidThresholds ELSE lowThresh < hiThresh

\* the sampled raw counts below and above the band of the driver in use
CountsBelow ==
  {c \in RawCounts : c < (IF driver = AutoGain THEN low_threshold ELSE lowThresh)}
CountsAbove ==
  {c \in RawCounts : c > (IF driver = AutoGain THEN high_threshold ELSE hiThresh)}

\* the object one single-step call leaves, its bus log dropped
SingleStep(o, count) ==
  LET r == IF driver = AutoGain
             THEN readLuxAuto(o, count, low_threshold, high_threshold, FALSE)
             ELSE optimizeParams(o, count, lowThresh, hiThresh)
  IN  [r.obj EXCEPT !.bus = <<>>]

\* <<S0, S1, .., Sn>>: the objects possible after 0 .. n consecutive calls,
\* each with a raw count of counts, starting in S
RECURSIVE Consecutive(_, _, _)
Consecutive(S, counts, n) ==
  IF n = 0 THEN <<S>>
  ELSE <<S>> \o Consecutive({SingleStep(o, c) : o \in S, c \in counts}, counts, n - 1)

\* some k <= 8 calls bring every run to goal, and calls k+1 .. 10 keep it there
ArrivesAndStays(counts, goal) ==
  LET runs == Consecutive({Obj}, counts, 10)
  IN  \E k \in 0 .. 8 :
        \A j \in k .. 10 :
          \A o \in runs[j + 1] :
            /\ WorkingExposure(o) = goal
            /\ InSync(Obj) => RegExposure(o) = goal

BetweenCalls ==
  /\ begun
  /\ las.pc = "idle"
  /\ call = NoCall \/ AfterReadLuxAuto \/ AfterOptimizeParams

\* C30: between calls, with a valid exposure and an ordered band, if every
\* raw count is below the band, at most 8 consecutive readLuxAuto() calls
\* (optimizeParams() calls on the other driver) bring the exposure to
\* (2x, 800 ms) and the calls after that leave it there; if every raw count
\* is above the band, at most 8 calls bring it to (1/8x, 25 ms), where it
\* stays.  A call the program has just made with such a count is the first
\* call of such a run.
C30_EightCallsReachTheEnd ==
  /\ (BetweenCalls /\ BandOrdered /\ ValidExposure(WorkingExposure(Obj)))
     => /\ ArrivesAndStays(CountsBelow, MostSensitive)
        /\ ArrivesAndStays(CountsAbove, LeastSensitive)
  /\ ((AfterReadLuxAuto \/ AfterOptimizeParams) /\ BandOrdered)
     => \A counts \in {CountsBelow, CountsAbove} :
          call.count \in counts
          => Obj \in Consecutive({call.pre}, counts, 1)[2]

\* C30 witness: a too-low call has just moved the exposure from (1/8x, 25 ms)
\* one step up; seven more calls with raw counts below the band are needed
\* to reach (2x, 800 ms), six are not enough
C30_Witness ==
  /\ BetweenCalls
  /\ BandOrdered
  /\ AfterReadLuxAuto \/ AfterOptimizeParams
  /\ call.count \in CountsBelow
  /\ WorkingExposure(call.pre) = LeastSensitive
  /\ \E o \in Consecutive({Obj}, CountsBelow, 6)[7] : WorkingExposure(o) # MostSensitive
  /\ \A o \in Consecutive({Obj}, CountsBelow, 7)[8] : WorkingExposure(o) = MostSensitive

----------------------------------------------------------------------------
(* Single-step adjustment under constant light *)

\* light levels L, in raw counts at (1x, 100 ms): for each threshold t and
\* the saturation value, the levels that put the raw count at t at one of
\* the exposures, and their neighbours
LightLevels ==
  {0, 1, 6, 7} \cup
  {l \in {((t * 32) \div Pow2(k)) + d :
            t \in {100, 1000, 10000, 30000, 65535}, k \in 0 .. 9, d \in {-1, 0, 1}} :
     l >= 0}

\* gain x integration time / 100 ms of exposure e, in 32nds
Exposure32(e) == GainEighths(e[1]) * Pow2(ItRank(e[2]))

\* the raw count of a sensor under light L at exposure e
SensorCount(L, e) ==
  LET c == (L * Exposure32(e)) \div 32
  IN  IF c > 65535 THEN 65535 ELSE c

\* <<o0, .., on>>: the objects after 0 .. n single-step calls, each fed the
\* raw count the sensor gives at the exposure programmed at that moment
RECURSIVE UnderLight(_, _, _)
UnderLight(o, L, n) ==
  IF n = 0 THEN <<o>>
  ELSE <<o>> \o UnderLight(SingleStep(o, SensorCount(L, RegExposure(o))), L, n - 1)

DefaultBand ==
  IF driver = AutoGain
    THEN low_threshold = DefaultLow /\ high_threshold = DefaultHigh
    ELSE lowThresh = 1000 /\ hiThresh = 30000

BelowBand(c) == c < (IF driver = AutoGain THEN low_threshold ELSE lowThresh)
AboveBand(c) == c > (IF driver = AutoGain THEN high_threshold ELSE hiThresh)

\* optimizeParams() answers false in one of the first passes of
\* do { raw = readALS(); } while (optimizeParams(raw)) along run
LoopLeftWithin(run, L, passes) ==
  \E k \in 1 .. passes :
    ~optimizeParams(run[k], SensorCount(L, RegExposure(run[k])), lowThresh, hiThresh).ret

\* C31: between calls, with the default band, a valid exposure that the
\* cache agrees with, and any constant light level, consecutive single-step
\* calls (readLuxAuto(), or the passes of the optimizeParams() loop) never
\* raise the sensitivity in one call and lower it in another, never meet a
\* raw count below the band in one call and above it in another, and leave
\* the exposure unchanged from the 9th call on; the optimizeParams() loop
\* is left within 9 passes.  Every call the program makes is such a step.
C31_ConstantLightSettles ==
  /\ (BetweenCalls /\ call = NoCall /\ DefaultBand /\ InSync(Obj)
        /\ ValidExposure(WorkingExposure(Obj)))
     => \A L \in LightLevels :
          LET run == UnderLight(Obj, L, 10)
              sens(i) == Exposure32(WorkingExposure(run[i]))
              raw(i) == SensorCount(L, RegExposure(run[i]))
          IN  /\ \A i \in 1 .. 11 : ValidExposure(WorkingExposure(run[i])) /\ InSync(run[i])
              /\ ~\E i, j \in 1 .. 10 : sens(i + 1) > sens(i) /\ sens(j + 1) < sens(j)
              /\ ~\E i, j \in 1 .. 10 : BelowBand(raw(i)) /\ AboveBand(raw(j))
              /\ run[9] = run[10] /\ run[10] = run[11]
              /\ driver = Base => LoopLeftWithin(run, L, 9)
  /\ (AfterReadLuxAuto \/ AfterOptimizeParams)
     => Obj = SingleStep(call.pre, call.count)

\* C31 witness: in darkness the first call at (1/8x, 25 ms) has raised the
\* sensitivity; the 8th call of the run reaches (2x, 800 ms), the 7th has not
C31_Witness ==
  /\ AfterReadLuxAuto \/ AfterOptimizeParams
  /\ DefaultBand
  /\ InSync(call.pre)
  /\ WorkingExposure(call.pre) = LeastSensitive
  /\ call.count = SensorCount(0, RegExposure(call.pre))
  /\ Obj = UnderLight(call.pre, 0, 8)[2]
  /\ WorkingExposure(UnderLight(call.pre, 0, 8)[8]) # MostSensitive
  /\ WorkingExposure(UnderLight(call.pre, 0, 8)[9]) = MostSensitive

----------------------------------------------------------------------------
(* luxAutoSensor: the order of one measurement *)

DataRead == <<"r", "ALS_Data">>

\* the bus log and the samples of the luxAutoSensor() call in progress or
\* just completed
LasBus == IF las.pc # "idle" THEN las.bus ELSE call.bus
LasSamples == IF las.pc # "idle" THEN las.samples ELSE call.samples

DataReads(bus) == {i \in 1 .. Len(bus) : bus[i] = DataRead}

\* position of the data read before position r, 0 if r is the first
PrevRead(bus, r) ==
  IF \E i \in DataReads(bus) : i < r
    THEN CHOOSE i \in DataReads(bus) : i < r /\ \A j \in DataReads(bus) : j < r => j <= i
    ELSE 0

\* the value last written to field before position r
LastWritten(bus, field, r) ==
  LET ws == {i \in 1 .. (r - 1) : bus[i][1] = "w" /\ bus[i][2] = field}
  IN  bus[CHOOSE i \in ws : \A j \in ws : j <= i][3]

\* the data read at position r closes a measurement made in order: since the
\* read before it, the integration time was written at w, the sensor
\* disabled at d and armed at a, and a delay of at least the written
\* integration time + 20 ms ended at t; every gain or integration-time
\* write since the earlier read comes before d
MeasuredInOrder(bus, r) ==
  \E w, d, a, t \in (PrevRead(bus, r) + 1) .. (r - 1) :
    /\ w < d /\ d < a /\ a < t
    /\ bus[w][1] = "w" /\ bus[w][2] = "ALS_Integration_Time"
    /\ bus[d] = Disable
    /\ bus[a] = Arm
    /\ bus[t][1] = "delay"
    /\ bus[t][2] >= ClaimedMs[bus[w][3]] + 20
    /\ \A k \in (PrevRead(bus, r) + 1) .. (r - 1) : ConfigWrite(bus[k]) => k < d
    /\ \A k \in (d + 1) .. (r - 1) : bus[k] # Disable

\* C32: in the luxAutoSensor() call in progress or just completed, every
\* read of the ALS data register closes a measurement made in order:
\* integration time (and in the first loop gain) written, then enable(false),
\* enable(true), then a delay of at least the written integration time plus
\* 20 ms, then the read, with no gain or integration-time write after the
\* enable(false); the exposure programmed when the n-th count is read is the
\* one last written before it.
C32_WriteArmWaitRead ==
  (las.pc # "idle" \/ AfterLuxAutoSensor)
  => /\ Cardinality(DataReads(LasBus)) = Len(LasSamples)
     /\ \A r \in DataReads(LasBus) :
          LET n == Cardinality({i \in DataReads(LasBus) : i <= r})
          IN  /\ MeasuredInOrder(LasBus, r)
              /\ LasSamples[n].it = LastWritten(LasBus, "ALS_Integration_Time", r)
              /\ LasSamples[n].gain = LastWritten(LasBus, "ALS_Gain", r)

\* C32 witness: a completed luxAutoSensor() call with three measurements,
\* the last two in the second loop at 50 ms and 25 ms, where only the
\* integration time is written before the re-arm
C32_Witness ==
  /\ AfterLuxAutoSensor
  /\ Len(call.samples) = 3
  /\ call.samples[2].it = VEML7700_IT_50MS
  /\ call.samples[3].it = VEML7700_IT_25MS
  /\ call.samples[3].gain = VEML7700_GAIN_1_8
  /\ \A r \in DataReads(call.bus) : MeasuredInOrder(call.bus, r)

----------------------------------------------------------------------------
(* readLuxAuto: the cached codes stay valid *)

\* C33: a readLuxAuto() call entered with valid cached gain and integration
\* time, whatever the raw count and the thresholds (an inverted pair
\* included), leaves valid cached codes: 255, the end-of-range answer of
\* nextIt, prevIt, nextGain and prevGain, is in neither cached field, and
\* every gain or integration-time value the call has written is the valid
\* code now cached.  By induction the same holds after any sequence of calls.
C33_CachedCodesStayValid ==
  (AfterReadLuxAuto /\ ValidExposure(CachedExposure(call.pre)))
  => /\ ValidExposure(CachedExposure(Obj))
     /\ veml_gain # UINT8_MAX /\ veml_it # UINT8_MAX
     /\ \A i \in 1 .. Len(call.bus) :
          /\ (call.bus[i][1] = "w" /\ call.bus[i][2] = "ALS_Gain")
               => (call.bus[i][3] \in GainCodes /\ call.bus[i][3] = veml_gain)
          /\ (call.bus[i][1] = "w" /\ call.bus[i][2] = "ALS_Integration_Time")
               => (call.bus[i][3] \in ItCodes /\ call.bus[i][3] = veml_it)
     /\ \A c \in RawCounts :
          ValidExposure(CachedExposure(SingleStep(Obj, c)))

\* C33 witness: with the inverted thresholds (10000, 100) a count above
\* both, read at (1/8x, 25 ms) where prevIt and prevGain answer 255, is
\* TOO_HIGH and the cached codes are kept
C33_Witness ==
  /\ AfterReadLuxAuto
  /\ ~ValidThresholds
  /\ CachedExposure(call.pre) = LeastSensitive
  /\ prevIt(call.pre.veml_it) = UINT8_MAX
  /\ prevGain(call.pre.veml_gain) = UINT8_MAX
  /\ call.ret.type = TOO_HIGH
  /\ CachedExposure(Obj) = LeastSensitive

----------------------------------------------------------------------------
(* readLuxAuto alone: the exposures it visits *)

\* integration time below 100 ms only with gain 1/8x, above 100 ms only
\* with gain 2x
OnThePath(e) ==
  /\ ValidExposure(e)
  /\ ItRank(e[2]) < Rank100ms => e[1] = VEML7700_GAIN_1_8
  /\ ItRank(e[2]) > Rank100ms => e[1] = VEML7700_GAIN_2

\* the exposures met within n readLuxAuto() calls from object o
Visited(o, n) ==
  LET runs == Consecutive({o}, RawCounts, n)
  IN  {CachedExposure(x) : x \in UNION {runs[i] : i \in 1 .. (n + 1)}}

\* C34: when only begin() and readLuxAuto() set the exposure, the cached
\* exposure of a begun driver is the programmed one and is on the path:
\* integration time below 100 ms implies gain 1/8x, above 100 ms implies
\* gain 2x.  9 of the 24 pairs are on the path, and right after begin(),
\* which programs (1x, 100 ms), exactly these 9 are met within 5 calls.  A
\* call that arrives at (1/8x, 25 ms) started at (1/8x, 50 ms).
C34_ReadLuxAutoPath ==
  /\ Cardinality({e \in GainCodes \X ItCodes : OnThePath(e)}) = 9
  /\ begun => /\ OnThePath(CachedExposure(Obj))
              /\ CachedExposure(Obj) = RegExposure(Obj)
  /\ (call.op = "begin" /\ call.ret)
     => /\ CachedExposure(Obj) = <<VEML7700_GAIN_1, VEML7700_IT_100MS>>
        /\ Visited(Obj, 5) = {e \in GainCodes \X ItCodes : OnThePath(e)}
  /\ (AfterReadLuxAuto /\ CachedExposure(Obj) = LeastSensitive
        /\ CachedExposure(call.pre) # LeastSensitive)
     => CachedExposure(call.pre) = <<VEML7700_GAIN_1_8, VEML7700_IT_50MS>>

\* C34 witness: the call that enters the correction exposure (1/8x, 25 ms),
\* from (1/8x, 50 ms) on a TOO_HIGH count
C34_Witness ==
  /\ AfterReadLuxAuto
  /\ call.ret.type = TOO_HIGH
  /\ CachedExposure(call.pre) = <<VEML7700_GAIN_1_8, VEML7700_IT_50MS>>
  /\ CachedExposure(Obj) = LeastSensitive
  /\ RegExposure(Obj) = LeastSensitive

----------------------------------------------------------------------------
(* readLuxAuto: the enabled flag *)

\* C35, as claimed: readLuxAuto() leaves the enabled flag (the shutdown bit)
\* at the value it had at call entry, for every raw count and every state.
\* readLuxAuto() ends each adjustment with enable(true), so this fails for a
\* sensor the caller had disabled.
C35_EnabledFlagKept ==
  AfterReadLuxAuto => (enabled(Obj) <=> enabled(call.pre))

----------------------------------------------------------------------------
(* Tables indexed by a register field *)

\* the lookups of the call just made
LookupsMade ==
  CASE call.op = "convertToLux" -> convertToLux_lookups(call.pre)
    [] call.op = "optimizeParams" ->
         optimizeParams_lookups(call.pre, call.count, lowThresh, hiThresh)
    [] call.op \in {"getRefreshTime", "getGainValue"} -> call.lookups
    [] OTHER -> {}

\* C36: every table subscript of convertToLux(), optimizeParams(),
\* getGainValue() and getRefreshTime() is inside its table, whatever the
\* 2-bit gain field, the 4-bit integration-time field (reserved codes
\* included) and the 2-bit power-save mode hold: gainCoeff, gainIndex
\* (4 entries), integrationTimeCoeff, integrationTimeIndex (16),
\* powerSaverTimes (4), and with the indices taken from the index tables,
\* stepped in optimizeParams(), gainVals (4), integrationTimeVals and
\* integrationTimes (6).  The fields themselves stay within their widths.
C36_LookupsInsideTables ==
  /\ \A l \in LookupsMade : InTable(l[1], l[2])
  /\ getGain(Obj) \in 0 .. (Len(gainCoeff) - 1)
  /\ getGain(Obj) \in 0 .. (Len(gainIndex) - 1)
  /\ getIntegrationTime(Obj) \in 0 .. (Len(integrationTimeCoeff) - 1)
  /\ getIntegrationTime(Obj) \in 0 .. (Len(integrationTimeIndex) - 1)
  /\ getPowerSaveMode(Obj) \in 0 .. (Len(powerSaverTimes) - 1)
  /\ call.op = "getRefreshTime"
     => call.ret = powerSaverTimes[getPowerSaveMode(call.pre) + 1]
                   + integrationTimes[integrationTimeIndex[getIntegrationTime(call.pre) + 1] + 1]
                   + powerOnWait

\* C36 witness: getRefreshTime() in power-save mode 4 with the reserved
\* integration-time code 15 in the register: the last entries of
\* powerSaverTimes and integrationTimeIndex are read, 4000 + 25 + 3 returned
C36_Witness ==
  /\ call.op = "getRefreshTime"
  /\ getPowerSaveMode(call.pre) = 3
  /\ getIntegrationTime(call.pre) = 15
  /\ <<powerSaverTimes, 3>> \in call.lookups
  /\ <<integrationTimeIndex, 15>> \in call.lookups
  /\ call.ret = 4028

====
